---- MODULE Spec2Model ----
(***************************************************************************)
(* Page canvas controller (createPageCanvas, src/src/utils/pageUtils.ts,   *)
(* lines 215-1996) together with the decoration helpers of                 *)
(* src/src/utils/pagePreviewUtils.ts (lines 179-475).                      *)
(*                                                                         *)
(* The graph is the ordered object list of the fabric canvas.  A snapshot  *)
(* (one history entry, one JSON handed to onPageChange) is the object list *)
(* that buildPersistedJson produces.  Asynchronous work (JSON reloads,     *)
(* image loads, the debounce timer) is kept as pending records whose       *)
(* completions are separate steps that may happen in any order.            *)
(*                                                                         *)
(* Further parts: the BOM table composer (bomTableUtils.ts: wrapping,      *)
(* chunking and page layout), the text layer of exportPagesAsPdf           *)
(* (src/src/utils/exportUtils.ts), the capture effects of the editor       *)
(* shell (EditorTab), the page list of the store (src/src/state/Store.ts), *)
(* the layer, lock, visibility and opacity operations of the handle and    *)
(* the crop handles of an image.  The pure parts are applied to bounded    *)
(* sets of inputs by specifications of their own.                          *)
(***************************************************************************)
EXTENDS Integers, Sequences, FiniteSets, TLC

\* ---------------------------------------------------------------- bounds
MaxOps == 4          \* handle / shell operations in one behaviour of Spec
MaxObjs == 2         \* user objects on the graph at one time
MaxPending == 2      \* JSON reloads or image loads in flight at one time
MaxPasses == 2       \* decoration passes with image loads in flight at one time
MaxVersion == 55     \* decoration passes in one behaviour of SpecHistory
MaxRedo == 1         \* redo() calls in one behaviour of SpecHistory
MaxBomOps == 5       \* user actions in one behaviour of SpecBom
MaxBomObjs == 4      \* objects besides the decorations after a paste
MaxLoaded == 3       \* objects of a graph handed to the consolidation step
MaxRuns == 2         \* consolidation runs in a row in one behaviour of SpecGroup
MaxMoves == 1        \* object:moving events in one behaviour of SpecMove
MaxRows == 3         \* rows of a table handed to the BOM composer
MaxLayouts == 2      \* composer calls in one behaviour of SpecPages
MaxTexts == 2        \* text nodes on an exported page
MaxExports == 1      \* exports in one behaviour of SpecExport
MaxShellOps == 3     \* user actions in one behaviour of SpecCapture
MaxCaptures == 2     \* captures taken in one behaviour of SpecCapture
MaxStoreOps == 3     \* store operations in one behaviour of SpecStore
MaxStorePages == 3   \* pages of the document at one time
MaxLayerOps == 2     \* handle operations in one behaviour of SpecLayer
MaxLayerObjs == 3    \* texts on the stored page SpecLayer starts from
MaxCrops == 2        \* pointer actions on the image in one behaviour of SpecCrop
MaxLinearOps == 5    \* handle operations in one behaviour of SpecLinear
MaxDecorOps == 3     \* handle operations in one behaviour of SpecDecor

\* ------------------------------------------------------ program constants
HistoryCap == 50
BOM_PAGE_WIDTH == 794
A4_PX == [width |-> 794, height |-> 1123]
GUIDE_SNAP_THRESHOLD == 6
MIN_IMAGE_CROP_SIZE == 24
PDF_PAGE_WIDTH == 595
PDF_PAGE_HEIGHT == 842
BOM_PAGE_HEIGHT == 1123
BOM_TABLE_TOP == 140
BOM_TABLE_BOTTOM == 120
BOM_HEADER_HEIGHT == 16
BOM_COL_WIDTHS == <<150, 330, 90, 50, 80>>
BOM_TABLE_WIDTH == 150 + 330 + 90 + 50 + 80
BOM_TABLE_X == (BOM_PAGE_WIDTH - BOM_TABLE_WIDTH) \div 2

HEADER_ID == "fixed-header"
FOOTER_ID == "fixed-footer"
STAMP_ID == "fixed-stamp"
DATE_ID == "fixed-date"
PAGE_NUMBER_ID == "fixed-page-number"
CONTACT_INFO_ID == "designer-contact-info"
DEFAULT_IMAGE_ID == "default-page-image"
BOM_TABLE_GROUP_ID == "bom-table-group"

LOCKED_DECORATION_IDS == {HEADER_ID, FOOTER_ID, STAMP_ID, DATE_ID, PAGE_NUMBER_ID}
ALL_DECORATION_IDS == {HEADER_ID, FOOTER_ID, STAMP_ID, DATE_ID, PAGE_NUMBER_ID, CONTACT_INFO_ID}

isLockedDecorationId(id) == id \in LOCKED_DECORATION_IDS
isDecorationId(id) == id \in ALL_DECORATION_IDS

\* The document: two pages; the second one carries one default image.
Pages == {"p1", "p2"}
InitialPage == "p1"
resolvePageDefaultImages(p) == IF p = "p2" THEN 1 ELSE 0

\* ---------------------------------------------------------------- objects
\* kind: the fabric type; id: data.id; pg: the page the object was made for;
\* bold: fontWeight = "bold"; txt: the text content; scale: scaleX = scaleY in
\* percent; angle: degrees; parts: the objects a group holds (the header group
\* is kept opaque); sel: member of the active selection (canvas state, never
\* serialized); locked: data.userLocked; dimmed: data.objectDimmed; opacity:
\* in percent.
TextObj(p) ==
  [kind |-> "i-text", id |-> "", pg |-> p, bold |-> FALSE, txt |-> 0,
   scale |-> 100, angle |-> 0, parts |-> 0, sel |-> FALSE,
   locked |-> FALSE, dimmed |-> FALSE, opacity |-> 100]
ImageObj(p, id) ==
  [kind |-> "image", id |-> id, pg |-> p, bold |-> FALSE, txt |-> 0,
   scale |-> 100, angle |-> 0, parts |-> 0, sel |-> FALSE,
   locked |-> FALSE, dimmed |-> FALSE, opacity |-> 100]
DecoKind(id) ==
  CASE id = HEADER_ID -> "group"
    [] id = CONTACT_INFO_ID -> "textbox"
    [] id \in {FOOTER_ID, STAMP_ID} -> "image"
    [] OTHER -> "text"
DecoObj(id) ==
  [kind |-> DecoKind(id), id |-> id, pg |-> "", bold |-> FALSE, txt |-> 0,
   scale |-> 100, angle |-> 0, parts |-> 0, sel |-> FALSE,
   locked |-> FALSE, dimmed |-> FALSE, opacity |-> 100]

\* The primitives of a BOM table as buildPageJson emits them (a rect or a text,
\* each tagged bom-...), and the group ensureBomTableGroup makes of n of them.
BomIds == {"bom-layout", "bom-cell-text", BOM_TABLE_GROUP_ID}
BomPart(p, id) ==
  [kind |-> IF id = "bom-cell-text" THEN "textbox" ELSE "rect", id |-> id, pg |-> p, bold |-> FALSE,
   txt |-> 0, scale |-> 100, angle |-> 0, parts |-> 0, sel |-> FALSE,
   locked |-> FALSE, dimmed |-> FALSE, opacity |-> 100]
BomGroup(p, n) ==
  [kind |-> "group", id |-> BOM_TABLE_GROUP_ID, pg |-> p, bold |-> FALSE,
   txt |-> 0, scale |-> 100, angle |-> 0, parts |-> n, sel |-> FALSE,
   locked |-> FALSE, dimmed |-> FALSE, opacity |-> 100]

isBomObject(o) == o.id \in BomIds
isBomTablePart(o) == o.id \in BomIds /\ o.id # BOM_TABLE_GROUP_ID
isBomTableEntity(o) == o.id = BOM_TABLE_GROUP_ID \/ isBomObject(o)

NoJson == [has |-> FALSE, objects |-> << >>]
Json(objs) == [has |-> TRUE, objects |-> objs]

VARIABLES
  canvas,                 \* canvas.getObjects(): the graph, bottom to top
  history,                \* history: string[]
  historyIndex,           \* historyIndex
  hasPageChanges,         \* hasPageChanges
  isRestoring,            \* isRestoring
  isApplyingDecorations,  \* isApplyingDecorations
  decorVersion,           \* decorVersion
  currentPageId,          \* currentPageId
  isDisposed,             \* isDisposed
  textChangeTimer,        \* textChangeTimer !== null
  pendingLoads,           \* canvas.loadFromJSON calls whose callback has not run
  pendingDecor,           \* footer / stamp image loads of decoration passes
  pendingImages,          \* fabric.Image.fromURL loads of addImage / addDefaultImages
  clipboard,              \* clipboard: the cloned object, or the members of a cloned selection
  store,                  \* the document store: page id -> fabricJSON
  calls,                  \* onPageChange calls made by the last step
  ops,                    \* operations drawn from the budget so far
  undoRun,                \* undo() calls issued in a row
  burst,                  \* the text typed last and not yet committed: page, text
  scene,                  \* input and output of a function checked on its own
  last                    \* the operation or completion of the last step

vars == <<canvas, history, historyIndex, hasPageChanges, isRestoring,
          isApplyingDecorations, decorVersion, currentPageId, isDisposed,
          textChangeTimer, pendingLoads, pendingDecor, pendingImages, clipboard, store,
          calls, ops, undoRun, burst, scene, last>>

\* ------------------------------------------------------ sequence helpers
RECURSIVE RemoveFirst(_, _)
RemoveFirst(s, id) ==
  IF s = << >> THEN << >>
  ELSE IF Head(s).id = id THEN Tail(s)
  ELSE <<Head(s)>> \o RemoveFirst(Tail(s), id)

RemoveAt(s, i) == SubSeq(s, 1, i - 1) \o SubSeq(s, i + 1, Len(s))

HasId(s, id) == \E i \in 1..Len(s) : s[i].id = id

LastN(s, n) == IF Len(s) <= n THEN s ELSE SubSeq(s, Len(s) - n + 1, Len(s))

UserCount(s) == Cardinality({i \in 1..Len(s) : ~isDecorationId(s[i].id)})

Deselect(s) == [i \in 1..Len(s) |-> [s[i] EXCEPT !.sel = FALSE]]

\* The controller's mutable state as one record, so that the helper functions
\* of the source become operators from state to state.
Ctl ==
  [canvas |-> canvas, history |-> history, historyIndex |-> historyIndex,
   hasPageChanges |-> hasPageChanges, isRestoring |-> isRestoring,
   isApplyingDecorations |-> isApplyingDecorations, decorVersion |-> decorVersion,
   currentPageId |-> currentPageId, isDisposed |-> isDisposed,
   pendingDecor |-> pendingDecor, clipboard |-> clipboard, calls |-> << >>]

Install(s) ==
  /\ canvas' = s.canvas
  /\ history' = s.history
  /\ historyIndex' = s.historyIndex
  /\ hasPageChanges' = s.hasPageChanges
  /\ isRestoring' = s.isRestoring
  /\ isApplyingDecorations' = s.isApplyingDecorations
  /\ decorVersion' = s.decorVersion
  /\ currentPageId' = s.currentPageId
  /\ isDisposed' = s.isDisposed
  /\ pendingDecor' = s.pendingDecor
  /\ clipboard' = s.clipboard
  /\ calls' = s.calls

\* The shell writes every onPageChange(pageId, json) into the document store.
RECURSIVE ApplyCalls(_, _)
ApplyCalls(st, cs) ==
  IF cs = << >> THEN st
  ELSE ApplyCalls([st EXCEPT ![Head(cs).pageId] = Json(Head(cs).json)], Tail(cs))

\* ------------------------------------------------- serialization, history
\* buildPersistedJson without the filter on the object list.
buildPersistedJsonUnfiltered(cv) == Deselect(cv)

buildPersistedJson(cv) ==
  SelectSeq(Deselect(cv), LAMBDA o : ~isLockedDecorationId(o.id))

\* seedHistoryFromCanvas appending the seed instead of replacing the list.
seedHistoryAppended(s) ==
  [s EXCEPT !.history = Append(@, buildPersistedJson(s.canvas)),
            !.historyIndex = Len(s.history),
            !.hasPageChanges = FALSE]

seedHistoryFromCanvas(s) ==
  [s EXCEPT !.history = <<buildPersistedJson(s.canvas)>>,
            !.historyIndex = 0,
            !.hasPageChanges = FALSE]

onPageChange(s, json) ==
  [s EXCEPT !.calls = Append(@, [pageId |-> s.currentPageId, json |-> json])]

\* pushHistory without the slice(-50).
pushHistoryUncapped(s) ==
  IF s.isRestoring \/ s.isDisposed THEN s
  ELSE IF s.currentPageId = "" THEN s
  ELSE LET json == buildPersistedJson(s.canvas)
           list == SubSeq(s.history, 1, s.historyIndex + 1) \o <<json>>
       IN IF s.historyIndex >= 0 /\ s.history[s.historyIndex + 1] = json THEN s
          ELSE onPageChange([s EXCEPT !.history = list,
                                      !.historyIndex = Len(list) - 1,
                                      !.hasPageChanges = TRUE], json)

\* pushHistory without the comparison against the latest entry.
pushHistoryAlways(s) ==
  IF s.isRestoring \/ s.isDisposed THEN s
  ELSE IF s.currentPageId = "" THEN s
  ELSE LET json == buildPersistedJson(s.canvas)
           list == SubSeq(s.history, 1, s.historyIndex + 1) \o <<json>>
           kept == LastN(list, HistoryCap)
       IN onPageChange([s EXCEPT !.history = kept,
                                 !.historyIndex = Len(kept) - 1,
                                 !.hasPageChanges = TRUE], json)

\* pushHistory without the call of onPageChangeRef.
pushHistorySilent(s) ==
  IF s.isRestoring \/ s.isDisposed THEN s
  ELSE IF s.currentPageId = "" THEN s
  ELSE LET json == buildPersistedJson(s.canvas)
           list == SubSeq(s.history, 1, s.historyIndex + 1) \o <<json>>
           kept == LastN(list, HistoryCap)
       IN IF s.historyIndex >= 0 /\ s.history[s.historyIndex + 1] = json THEN s
          ELSE [s EXCEPT !.history = kept,
                         !.historyIndex = Len(kept) - 1,
                         !.hasPageChanges = TRUE]

pushHistory(s) ==
  IF s.isRestoring \/ s.isDisposed THEN s
  ELSE IF s.currentPageId = "" THEN s
  ELSE LET json == buildPersistedJson(s.canvas)
           list == SubSeq(s.history, 1, s.historyIndex + 1) \o <<json>>
           kept == LastN(list, HistoryCap)
       IN IF s.historyIndex >= 0 /\ s.history[s.historyIndex + 1] = json THEN s
          ELSE onPageChange([s EXCEPT !.history = kept,
                                      !.historyIndex = Len(kept) - 1,
                                      !.hasPageChanges = TRUE], json)

\* ----------------------------------------------------------- decorations
bringDecorationsToFront(cv) ==
  SelectSeq(cv, LAMBDA o : ~isDecorationId(o.id)) \o
  SelectSeq(cv, LAMBDA o : isDecorationId(o.id))

\* The synchronous part of applyPageDecorations: up to the first await.
applyPageDecorations(cv) ==
  LET cleared == RemoveFirst(RemoveFirst(RemoveFirst(RemoveFirst(RemoveFirst(
                   cv, HEADER_ID), DATE_ID), PAGE_NUMBER_ID), FOOTER_ID), STAMP_ID)
      fixed == cleared \o <<DecoObj(HEADER_ID), DecoObj(DATE_ID), DecoObj(PAGE_NUMBER_ID)>>
  IN IF HasId(fixed, CONTACT_INFO_ID) THEN fixed
     ELSE Append(fixed, DecoObj(CONTACT_INFO_ID))

ensureHeaderFooter(s) ==
  IF s.isDisposed THEN s
  ELSE [s EXCEPT !.decorVersion = @ + 1,
                 !.isApplyingDecorations = TRUE,
                 !.canvas = applyPageDecorations(@),
                 !.pendingDecor = @ \cup
                    {[ver |-> s.decorVersion + 1, img |-> i, pg |-> s.currentPageId] :
                       i \in {FOOTER_ID, STAMP_ID}}]

onCanvasChanged(s, target) ==
  IF s.isApplyingDecorations THEN s
  ELSE IF isLockedDecorationId(target.id) THEN s
  ELSE pushHistory([s EXCEPT !.canvas = bringDecorationsToFront(@)])

\* canvas.add(obj): the object goes on top and object:added is fired.
canvasAdd(s, obj) == onCanvasChanged([s EXCEPT !.canvas = Append(@, obj)], obj)

\* canvas.loadFromJSON at completion: the graph is replaced by the objects of
\* the JSON, inserted one by one, each insert firing object:added.
RECURSIVE insertAll(_, _)
insertAll(s, objs) ==
  IF objs = << >> THEN s ELSE insertAll(canvasAdd(s, Head(objs)), Tail(objs))

loadFromJSON(s, json) == insertAll([s EXCEPT !.canvas = << >>], json)

\* canvas.add of each object of a list in turn.
insertEach(s, objs) == insertAll(s, objs)

isTextObject(o) == o.kind \in {"i-text", "textbox", "text"}
isImageObject(o) == o.kind = "image"
HasImages(json) == \E i \in 1..Len(json) : isImageObject(json[i])
Selected(cv) == {i \in 1..Len(cv) : cv[i].sel}
InFlight == Len(pendingLoads) + Len(pendingImages)
PassRoom == Cardinality({l.ver : l \in pendingDecor}) < MaxPasses

\* ------------------------------------------------------------ BOM group
\* fitAndClampBomGroup: a group wider than the page is scaled down to the page
\* width less 8 px (the table is shorter than the page).
fitAndClampBomGroup(o) ==
  IF o.scale * BOM_TABLE_WIDTH > BOM_PAGE_WIDTH * 100
    THEN [o EXCEPT !.scale = ((BOM_PAGE_WIDTH - 8) * 100) \div BOM_TABLE_WIDTH]
    ELSE o

\* applyBomGroupBehavior: the group is tagged bom-table-group; rotation and
\* skewing are locked, scaling and the controls only with userLocked.
applyBomGroupBehavior(o) == [o EXCEPT !.id = BOM_TABLE_GROUP_ID]

\* bomParts.forEach(canvas.remove): every removal fires object:removed.
RECURSIVE removeBomParts(_)
removeBomParts(s) ==
  LET cv == s.canvas
      idx == {i \in 1..Len(cv) : isBomTablePart(cv[i])}
  IN IF idx = {} THEN s
     ELSE LET i == CHOOSE k \in idx : \A j \in idx : k <= j
          IN removeBomParts(onCanvasChanged([s EXCEPT !.canvas = RemoveAt(cv, i)], cv[i]))

\* ensureBomTableGroup without the early return on an existing group: the
\* loose parts, if any or none, always go into a new group.
ensureBomTableGroupAnew(s) ==
  LET cv == s.canvas
      bomParts == {i \in 1..Len(cv) : isBomTablePart(cv[i])}
  IN canvasAdd(removeBomParts(s),
               applyBomGroupBehavior(BomGroup(s.currentPageId, Cardinality(bomParts))))

ensureBomTableGroup(s) ==
  LET cv == s.canvas
      groups == {i \in 1..Len(cv) : cv[i].id = BOM_TABLE_GROUP_ID}
      existingGroup == CHOOSE i \in groups : \A j \in groups : i <= j
      bomParts == {i \in 1..Len(cv) : isBomTablePart(cv[i])}
      first == CHOOSE i \in bomParts : \A j \in bomParts : i <= j
      group == applyBomGroupBehavior(BomGroup(cv[first].pg, Cardinality(bomParts)))
      s1 == canvasAdd(removeBomParts(s), group)
  IN IF groups # {}
       THEN [s EXCEPT !.canvas[existingGroup] = fitAndClampBomGroup(applyBomGroupBehavior(@))]
     ELSE IF bomParts = {} THEN s
     ELSE [s1 EXCEPT !.canvas = [i \in 1..Len(@) |->
              IF @[i].id = BOM_TABLE_GROUP_ID THEN fitAndClampBomGroup(@[i]) ELSE @[i]]]

\* ------------------------------------------------------ load callbacks
syncDefaultImageMetadata(cv, p) ==
  LET imgs == {i \in 1..Len(cv) : isImageObject(cv[i])}
      same == {i \in imgs : cv[i].id = DEFAULT_IMAGE_ID /\ cv[i].pg = p}
      pick == IF same # {} THEN CHOOSE i \in same : \A j \in same : i <= j
              ELSE CHOOSE i \in imgs : \A j \in imgs : i <= j
  IN IF resolvePageDefaultImages(p) = 0 \/ imgs = {} THEN cv
     ELSE [cv EXCEPT ![pick] = [@ EXCEPT !.id = DEFAULT_IMAGE_ID, !.pg = p]]

\* The callback of loadFromJSON in handle.undo and handle.redo.
historyReloaded(s) ==
  ensureHeaderFooter([ensureBomTableGroup(s) EXCEPT !.isRestoring = FALSE])

\* The callback of loadFromJSON in loadPage.
pageReloaded(s, p) ==
  LET s0 == ensureBomTableGroup(s)
      s1 == [s0 EXCEPT !.canvas = syncDefaultImageMetadata(@, p), !.isRestoring = FALSE]
      s2 == seedHistoryFromCanvas(ensureHeaderFooter(s1))
  IN IF s2.currentPageId # "" THEN onPageChange(s2, buildPersistedJson(s2.canvas)) ELSE s2

reloaded(s, load) ==
  LET s1 == loadFromJSON(s, load.json)
  IN IF load.kind = "page" THEN pageReloaded(s1, load.pg) ELSE historyReloaded(s1)

\* canvas.loadFromJSON(json, callback): fabric revives text objects within the
\* call and image objects only once their element has loaded, so a JSON that
\* holds an image completes in a later step.
startReload(s, load) ==
  IF HasImages(load.json) THEN s ELSE reloaded(s, load)

\* ------------------------------------------------------------ operations
\* The burst of text changes: the page shown when the last text:changed fired
\* and the text of the edited object after it.  The burst is over once the
\* debounce timer has fired or was cleared by dispose, or once the user took
\* the text back or away (undo, redo, delete).
NoBurst == [pg |-> "", txt |-> 0]
NoScene == [of |-> "controller"]
BurstEnds == {"timer", "dispose", "undo", "redo", "deleteActive"}
EditedText(cv) == cv[CHOOSE i \in Selected(cv) : TRUE].txt

\* A step that leaves the controller in state s and the shell in state sc;
\* the shell's onPageChange writes the committed JSON into its store.
EffectOn(label, s, sc) ==
  /\ Install(s)
  /\ store' = ApplyCalls(store, s.calls)
  /\ burst' = IF label = "textEdit" THEN [pg |-> currentPageId, txt |-> EditedText(s.canvas)]
               ELSE IF label \in BurstEnds THEN NoBurst
               ELSE burst
  /\ scene' = sc
  /\ last' = label

\* What every step of the handle or the shell leaves alone unless it says so.
Effect(label, s) == EffectOn(label, s, scene)

\* A call of the handle or of loadPage / setHeaderFooter / dispose.
Step(label, s) == Effect(label, s) /\ undoRun' = 0

\* A canvas event or the completion of asynchronous work.
Done(label, s) == Effect(label, s) /\ UNCHANGED undoRun

\* The guard of handle.undo with its boundary one entry too high: the first
\* entry after the seed can not be undone.
undoBlockedAtFirstEntry(s) == ~s.hasPageChanges \/ s.historyIndex <= 1

\* handle.undo without its two early returns.
undoNeverBlocked(s) == FALSE

undoBlocked(s) == ~s.hasPageChanges \/ s.historyIndex <= 0
redoBlocked(s) == s.historyIndex >= Len(s.history) - 1

AddText ==
  /\ UserCount(canvas) < MaxObjs
  /\ LET obj == [TextObj(currentPageId) EXCEPT !.sel = TRUE]
         s1 == canvasAdd([Ctl EXCEPT !.canvas = Deselect(@)], obj)
     IN Step("addText", pushHistory(s1))
  /\ UNCHANGED <<textChangeTimer, pendingLoads, pendingImages>>

setTextStyle(cv) ==
  [i \in 1..Len(cv) |->
     IF cv[i].sel /\ isTextObject(cv[i]) /\ ~isBomObject(cv[i])
       THEN [cv[i] EXCEPT !.bold = ~@] ELSE cv[i]]

SetTextStyle ==
  /\ Selected(canvas) # {}
  /\ LET changedCanvas ==
           \E i \in Selected(canvas) : isTextObject(canvas[i]) /\ ~isBomObject(canvas[i])
         s1 == [Ctl EXCEPT !.canvas = setTextStyle(@)]
     IN Step("setTextStyle", IF changedCanvas THEN pushHistory(s1) ELSE s1)
  /\ UNCHANGED <<textChangeTimer, pendingLoads, pendingImages>>

\* removeActiveObjects: every canvas.remove fires object:removed.
RECURSIVE removeEach(_, _)
removeEach(s, n) ==
  IF n = 0 THEN s
  ELSE LET cv == s.canvas
           idx == {i \in 1..Len(cv) :
                     cv[i].sel /\ ~isDecorationId(cv[i].id) /\ ~isBomObject(cv[i])}
       IN IF idx = {} THEN s
          ELSE LET i == CHOOSE k \in idx : \A j \in idx : k <= j
               IN removeEach(onCanvasChanged([s EXCEPT !.canvas = RemoveAt(cv, i)], cv[i]), n - 1)

removeActiveObjects(s) ==
  LET removed == \E i \in Selected(s.canvas) :
                   ~isDecorationId(s.canvas[i].id) /\ ~isBomObject(s.canvas[i])
      s1 == removeEach(s, Len(s.canvas))
      s2 == [s1 EXCEPT !.canvas = Deselect(@)]
  IN IF removed THEN pushHistory(s2) ELSE s2

DeleteActive ==
  /\ Selected(canvas) # {}
  /\ Step("deleteActive", removeActiveObjects(Ctl))
  /\ UNCHANGED <<textChangeTimer, pendingLoads, pendingImages>>

\* A pointer click on a selectable object (or on the empty page, i = 0).
Select(i) ==
  /\ ~isDisposed
  /\ i # 0 => ~isLockedDecorationId(canvas[i].id)
  /\ Selected(canvas) # (IF i = 0 THEN {} ELSE {i})
  /\ Done("select", [Ctl EXCEPT !.canvas = [k \in 1..Len(canvas) |-> [canvas[k] EXCEPT !.sel = (k = i)]]])
  /\ UNCHANGED <<textChangeTimer, pendingLoads, pendingImages>>

\* A shift-click on a selectable object outside a non-empty selection.
SelectAlso(i) ==
  /\ ~isDisposed
  /\ Selected(canvas) # {}
  /\ ~canvas[i].sel
  /\ ~isLockedDecorationId(canvas[i].id)
  /\ Done("select", [Ctl EXCEPT !.canvas[i].sel = TRUE])
  /\ UNCHANGED <<textChangeTimer, pendingLoads, pendingImages>>

\* The transform locks fabric enforces on a drag of a control: lockObject and
\* moveOnlyObject lock scaling and rotation of the decorations,
\* applyBomGroupBehavior locks the rotation of the BOM group and, the group not
\* being userLocked, leaves its scaling free.
lockScaling(o) == isDecorationId(o.id)
lockRotation(o) == isDecorationId(o.id) \/ isBomTableEntity(o)

\* The user drags a scaling control of the one selected object to another
\* size; fabric fires object:modified when the drag has changed the object.
Resize(i, sc) ==
  /\ ~isDisposed
  /\ Selected(canvas) = {i}
  /\ sc # canvas[i].scale
  /\ IF lockScaling(canvas[i]) THEN Done("resize", Ctl)
     ELSE Done("resize", onCanvasChanged([Ctl EXCEPT !.canvas[i].scale = sc], canvas[i]))
  /\ UNCHANGED <<textChangeTimer, pendingLoads, pendingImages>>

\* The user drags the rotation control of the one selected object.
Rotate(i, deg) ==
  /\ ~isDisposed
  /\ Selected(canvas) = {i}
  /\ deg # canvas[i].angle
  /\ IF lockRotation(canvas[i]) THEN Done("rotate", Ctl)
     ELSE Done("rotate", onCanvasChanged([Ctl EXCEPT !.canvas[i].angle = deg], canvas[i]))
  /\ UNCHANGED <<textChangeTimer, pendingLoads, pendingImages>>

\* fabric's object.clone(callback) with no propertiesToInclude: the clone is
\* rebuilt from toObject(), which leaves out the data bag, and is on no canvas.
clone(o) == [o EXCEPT !.id = "", !.sel = FALSE, !.locked = FALSE, !.dimmed = FALSE]

\* The clone of canvas.getActiveObject(): of the one selected object, or of
\* the ActiveSelection with its members.
cloneActive(cv) ==
  LET members == SelectSeq(cv, LAMBDA o : o.sel)
  IN [i \in 1..Len(members) |-> clone(members[i])]

\* The guards of handle.copy and of the cut shortcut look at the data.id of
\* the active object; an ActiveSelection has none.
copyRefused(cv) ==
  \/ Selected(cv) = {}
  \/ \E i \in Selected(cv) :
       Selected(cv) = {i} /\ (isDecorationId(cv[i].id) \/ isBomObject(cv[i]))

copy(s) ==
  IF copyRefused(s.canvas) THEN s
  ELSE [s EXCEPT !.clipboard = cloneActive(s.canvas)]

Copy ==
  /\ Step("copy", copy(Ctl))
  /\ UNCHANGED <<textChangeTimer, pendingLoads, pendingImages>>

\* onClipboardShortcuts, key x: clone, then removeActiveObjects().
cut(s) ==
  IF copyRefused(s.canvas) THEN s
  ELSE removeActiveObjects([s EXCEPT !.clipboard = cloneActive(s.canvas)])

Cut ==
  /\ ~isDisposed
  /\ Step("cut", cut(Ctl))
  /\ UNCHANGED <<textChangeTimer, pendingLoads, pendingImages>>

\* handle.paste: the clipboard is cloned again, every clone is added (each add
\* fires object:added) and selected, and the result is committed.
paste(s) ==
  LET clones == [i \in 1..Len(s.clipboard) |-> [clone(s.clipboard[i]) EXCEPT !.sel = TRUE]]
      s1 == insertEach([s EXCEPT !.canvas = Deselect(@)], clones)
  IN IF s.clipboard = << >> THEN s
     ELSE pushHistory([s1 EXCEPT !.clipboard = Deselect(clones)])

Paste ==
  /\ UserCount(canvas) + Len(clipboard) <= MaxBomObjs
  /\ Step("paste", paste(Ctl))
  /\ UNCHANGED <<textChangeTimer, pendingLoads, pendingImages>>

\* handle.undo: the source decrements the index, starts the reload, then
\* clears hasPageChanges at index 0 and reports the snapshot.  The handler ends
\* after its first two assignments (undoStarted, redoStarted) when it throws:
\* JSON.parse(history[i]) of an index outside the list, or, on a disposed
\* canvas, canvas.clear() of a reload that completes within the call.
InHistory(s) == s.historyIndex \in 0..(Len(s.history) - 1)

undoStarted(s) == [s EXCEPT !.historyIndex = @ - 1, !.isRestoring = TRUE]

undo(s) ==
  LET s1 == undoStarted(s)
      json == s1.history[s1.historyIndex + 1]
      s2 == startReload(s1, [kind |-> "history", json |-> json, pg |-> ""])
      s3 == IF s2.historyIndex = 0 THEN [s2 EXCEPT !.hasPageChanges = FALSE] ELSE s2
  IN IF ~InHistory(s1) THEN s1
     ELSE IF s3.currentPageId # "" THEN onPageChange(s3, json) ELSE s3

redoStarted(s) == [s EXCEPT !.historyIndex = @ + 1, !.isRestoring = TRUE]

redo(s) ==
  LET s1 == redoStarted(s)
      json == s1.history[s1.historyIndex + 1]
      s2 == startReload(s1, [kind |-> "history", json |-> json, pg |-> ""])
      s3 == [s2 EXCEPT !.hasPageChanges = (s2.historyIndex > 0)]
  IN IF ~InHistory(s1) THEN s1
     ELSE IF s3.currentPageId # "" THEN onPageChange(s3, json) ELSE s3

\* The reload that undo() or redo() leaves in flight: the callback of a
\* snapshot that holds an image.
deferredReload(s) ==
  IF InHistory(s) /\ HasImages(s.history[s.historyIndex + 1])
    THEN <<[kind |-> "history", json |-> s.history[s.historyIndex + 1], pg |-> ""]>>
    ELSE << >>

Undo ==
  /\ InFlight < MaxPending
  /\ IF undoBlocked(Ctl)
       THEN /\ Effect("undo", Ctl)
            /\ UNCHANGED pendingLoads
       ELSE /\ \E returns \in BOOLEAN :
                 /\ (~isDisposed \/ deferredReload(undoStarted(Ctl)) # << >>) => returns
                 /\ Effect("undo", IF returns THEN undo(Ctl) ELSE undoStarted(Ctl))
            /\ pendingLoads' = pendingLoads \o deferredReload(undoStarted(Ctl))
  /\ undoRun' = IF undoRun < HistoryCap THEN undoRun + 1 ELSE undoRun
  /\ UNCHANGED <<textChangeTimer, pendingImages>>

Redo ==
  /\ InFlight < MaxPending
  /\ IF redoBlocked(Ctl)
       THEN /\ Step("redo", Ctl)
            /\ UNCHANGED pendingLoads
       ELSE /\ \E returns \in BOOLEAN :
                 /\ (~isDisposed \/ deferredReload(redoStarted(Ctl)) # << >>) => returns
                 /\ Step("redo", IF returns THEN redo(Ctl) ELSE redoStarted(Ctl))
            /\ pendingLoads' = pendingLoads \o deferredReload(redoStarted(Ctl))
  /\ UNCHANGED <<textChangeTimer, pendingImages>>

\* loadPage(nextPage): nextPage is the store's page p.
loadPage(s, p) ==
  LET s1 == [s EXCEPT !.currentPageId = p, !.isRestoring = TRUE, !.canvas = << >>]
  IN IF store[p].has
       THEN startReload(s1, [kind |-> "page", json |-> store[p].objects, pg |-> p])
       ELSE LET s2 == ensureHeaderFooter([s1 EXCEPT !.isRestoring = FALSE])
            IN IF resolvePageDefaultImages(p) > 0 THEN s2 ELSE seedHistoryFromCanvas(s2)

LoadPage(p) ==
  /\ InFlight < MaxPending
  /\ IF isDisposed \/ p = currentPageId
       THEN /\ Step("loadPageIgnored", Ctl)
            /\ UNCHANGED <<pendingLoads, pendingImages>>
       ELSE /\ Step("loadPage", loadPage(Ctl, p))
            /\ pendingLoads' = IF store[p].has /\ HasImages(store[p].objects)
                                 THEN Append(pendingLoads, [kind |-> "page", json |-> store[p].objects, pg |-> p])
                                 ELSE pendingLoads
            /\ pendingImages' = IF ~store[p].has /\ resolvePageDefaultImages(p) > 0
                                  THEN Append(pendingImages, [kind |-> "default", pg |-> p])
                                  ELSE pendingImages
  /\ UNCHANGED textChangeTimer

SetHeaderFooter ==
  /\ Step("setHeaderFooter", ensureHeaderFooter(Ctl))
  /\ UNCHANGED <<textChangeTimer, pendingLoads, pendingImages>>

\* dispose(): canvas.dispose() empties the graph.
dispose(s) == [s EXCEPT !.isDisposed = TRUE, !.canvas = << >>]

Dispose ==
  /\ ~isDisposed
  /\ Step("dispose", dispose(Ctl))
  /\ textChangeTimer' = FALSE
  /\ UNCHANGED <<pendingLoads, pendingImages>>

AddImage ==
  /\ InFlight < MaxPending
  /\ UserCount(canvas) < MaxObjs
  /\ Step("addImage", Ctl)
  /\ pendingImages' = Append(pendingImages, [kind |-> "add", pg |-> currentPageId])
  /\ UNCHANGED <<textChangeTimer, pendingLoads>>

\* text:changed on the i-text being edited.
onTextChanged(timer) == IF isApplyingDecorations THEN timer ELSE TRUE

TextEdit ==
  /\ ~isDisposed
  /\ \E i \in Selected(canvas) :
       /\ Selected(canvas) = {i}
       /\ canvas[i].kind = "i-text"
       /\ Done("textEdit", [Ctl EXCEPT !.canvas[i].txt = 1 - @])
  /\ textChangeTimer' = onTextChanged(textChangeTimer)
  /\ UNCHANGED <<pendingLoads, pendingImages>>

TimerFire ==
  /\ textChangeTimer
  /\ textChangeTimer' = FALSE
  /\ Done("timer", pushHistory(Ctl))
  /\ UNCHANGED <<pendingLoads, pendingImages>>

\* ----------------------------------------------------------- completions
\* The callback of a deferred loadFromJSON.  On a disposed canvas fabric may
\* fail before it reaches the callback, so both outcomes are possible there.
ReloadDone(i) ==
  /\ PassRoom
  /\ pendingLoads' = RemoveAt(pendingLoads, i)
  /\ \E run \in BOOLEAN :
       /\ ~isDisposed => run
       /\ Done(IF pendingLoads[i].kind = "page" THEN "pageReloaded" ELSE "historyReloaded",
               IF run THEN reloaded(Ctl, pendingLoads[i]) ELSE Ctl)
  /\ UNCHANGED <<textChangeTimer, pendingImages>>

\* addFooter / addStamp: the fabric.Image.fromURL callback, and the finally
\* of ensureHeaderFooter once both loads of the pass have resolved.
\* The finally of ensureHeaderFooter without its test of the request version.
decorLoadedAnyVersion(s, load) ==
  LET isActive == ~s.isDisposed /\ load.ver = s.decorVersion
      s1 == IF isActive THEN canvasAdd(s, DecoObj(load.img)) ELSE s
      s2 == [s1 EXCEPT !.pendingDecor = @ \ {load}]
      settled == \A l \in s2.pendingDecor : l.ver # load.ver
  IN IF ~settled THEN s2
     ELSE [s2 EXCEPT !.isApplyingDecorations = FALSE,
                     !.canvas = IF s2.isDisposed THEN @ ELSE bringDecorationsToFront(@)]

decorLoaded(s, load) ==
  LET isActive == ~s.isDisposed /\ load.ver = s.decorVersion
      s1 == IF isActive THEN canvasAdd(s, DecoObj(load.img)) ELSE s
      s2 == [s1 EXCEPT !.pendingDecor = @ \ {load}]
      settled == \A l \in s2.pendingDecor : l.ver # load.ver
  IN IF ~settled \/ load.ver # s2.decorVersion THEN s2
     ELSE [s2 EXCEPT !.isApplyingDecorations = FALSE,
                     !.canvas = IF s2.isDisposed THEN @ ELSE bringDecorationsToFront(@)]

DecorLoadDone(load) ==
  /\ Done("decorLoaded", decorLoaded(Ctl, load))
  /\ UNCHANGED <<textChangeTimer, pendingLoads, pendingImages>>

\* The fabric.Image.fromURL callback of handle.addImage.
imageAdded(s, load, ok) ==
  IF ~ok THEN s
  ELSE pushHistory(canvasAdd([s EXCEPT !.canvas = Deselect(@)],
                             [ImageObj(load.pg, "") EXCEPT !.sel = TRUE]))

\* The fabric.Image.fromURL callback of addDefaultImages (one cell), followed
\* by loadByIndex past the last cell and loadPage's onComplete.
defaultImageLoaded(s, load, ok) ==
  LET s1 == IF ~ok \/ s.isDisposed THEN s
            ELSE canvasAdd(s, ImageObj(load.pg, DEFAULT_IMAGE_ID))
  IN seedHistoryFromCanvas(ensureHeaderFooter(s1))

ImageLoadDone(i, ok) ==
  /\ PassRoom
  /\ pendingImages' = RemoveAt(pendingImages, i)
  /\ LET load == pendingImages[i]
     IN IF load.kind = "add"
          THEN Done("imageAdded", imageAdded(Ctl, load, ok))
          ELSE Done("defaultImageLoaded", defaultImageLoaded(Ctl, load, ok))
  /\ UNCHANGED <<textChangeTimer, pendingLoads>>

\* ------------------------------------------------------------------ Init
\* createPageCanvas on the fresh first page (no fabricJSON, no default image):
\* ensureHeaderFooter(), then seedHistoryFromCanvas().
Constructed ==
  seedHistoryFromCanvas(ensureHeaderFooter(
    [canvas |-> << >>, history |-> << >>, historyIndex |-> -1, hasPageChanges |-> FALSE,
     isRestoring |-> FALSE, isApplyingDecorations |-> FALSE, decorVersion |-> 0,
     currentPageId |-> InitialPage, isDisposed |-> FALSE, pendingDecor |-> {},
     clipboard |-> << >>, calls |-> << >>]))

Init ==
  /\ canvas = Constructed.canvas
  /\ history = Constructed.history
  /\ historyIndex = Constructed.historyIndex
  /\ hasPageChanges = Constructed.hasPageChanges
  /\ isRestoring = Constructed.isRestoring
  /\ isApplyingDecorations = Constructed.isApplyingDecorations
  /\ decorVersion = Constructed.decorVersion
  /\ currentPageId = Constructed.currentPageId
  /\ isDisposed = Constructed.isDisposed
  /\ pendingDecor = Constructed.pendingDecor
  /\ clipboard = << >>
  /\ calls = << >>
  /\ textChangeTimer = FALSE
  /\ pendingLoads = << >>
  /\ pendingImages = << >>
  /\ store = [p \in Pages |-> NoJson]
  /\ ops = 0
  /\ undoRun = 0
  /\ burst = NoBurst
  /\ scene = NoScene
  /\ last = "init"

\* One more operation may be issued.  A step that may start a decoration pass
\* waits until fewer than MaxPasses passes have image loads in flight.
Budget == ops < MaxOps /\ ops' = ops + 1 /\ PassRoom
Free == UNCHANGED ops

Next ==
  \/ Budget /\ AddText
  \/ Budget /\ SetTextStyle
  \/ Budget /\ DeleteActive
  \/ Budget /\ AddImage
  \/ Budget /\ Undo
  \/ Budget /\ Redo
  \/ Budget /\ \E p \in Pages : LoadPage(p)
  \/ Budget /\ SetHeaderFooter
  \/ Budget /\ Dispose
  \/ Budget /\ \E i \in 0..Len(canvas) : Select(i)
  \/ Budget /\ TextEdit
  \/ Free /\ TimerFire
  \/ Free /\ \E i \in 1..Len(pendingLoads) : ReloadDone(i)
  \/ Free /\ \E load \in pendingDecor : DecorLoadDone(load)
  \/ Free /\ \E i \in 1..Len(pendingImages), ok \in BOOLEAN : ImageLoadDone(i, ok)

Spec == Init /\ [][Next]_vars

\* The controller on its first page under commits, undo and redo only.
NextUndo ==
  \/ Budget /\ AddText
  \/ Budget /\ AddImage
  \/ Budget /\ Undo
  \/ Budget /\ Redo
  \/ Free /\ \E i \in 1..Len(pendingLoads) : ReloadDone(i)
  \/ Free /\ \E load \in pendingDecor : DecorLoadDone(load)
  \/ Free /\ \E i \in 1..Len(pendingImages), ok \in BOOLEAN : ImageLoadDone(i, ok)

SpecUndo == Init /\ [][NextUndo]_vars

\* The same controller driven far enough to fill the history.  It starts on
\* the fresh first page once the footer and stamp images of the construction
\* pass have loaded and the first addText() has run; the selected text is
\* restyled without limit and undo is called up to MaxVersion decoration
\* passes, each one after the images of the pass before it have loaded; redo
\* is called up to MaxRedo times.
FirstText ==
  LET s1 == decorLoaded(Constructed, [ver |-> 1, img |-> FOOTER_ID, pg |-> InitialPage])
      s2 == decorLoaded(s1, [ver |-> 1, img |-> STAMP_ID, pg |-> InitialPage])
  IN pushHistory(canvasAdd(s2, [TextObj(InitialPage) EXCEPT !.sel = TRUE]))

InitHistory ==
  /\ canvas = FirstText.canvas
  /\ history = FirstText.history
  /\ historyIndex = FirstText.historyIndex
  /\ hasPageChanges = FirstText.hasPageChanges
  /\ isRestoring = FirstText.isRestoring
  /\ isApplyingDecorations = FirstText.isApplyingDecorations
  /\ decorVersion = FirstText.decorVersion
  /\ currentPageId = FirstText.currentPageId
  /\ isDisposed = FirstText.isDisposed
  /\ pendingDecor = FirstText.pendingDecor
  /\ clipboard = << >>
  /\ calls = FirstText.calls
  /\ textChangeTimer = FALSE
  /\ pendingLoads = << >>
  /\ pendingImages = << >>
  /\ store = ApplyCalls([p \in Pages |-> NoJson], FirstText.calls)
  /\ ops = 0
  /\ undoRun = 0
  /\ burst = NoBurst
  /\ scene = NoScene
  /\ last = "addText"

VersionRoom == decorVersion < MaxVersion /\ pendingDecor = {}
RedoBudget == ops < MaxRedo /\ ops' = ops + 1

NextHistory ==
  \/ Free /\ SetTextStyle
  \/ Free /\ VersionRoom /\ Undo
  \/ RedoBudget /\ VersionRoom /\ Redo
  \/ Free /\ \E load \in pendingDecor : DecorLoadDone(load)

SpecHistory == InitHistory /\ [][NextHistory]_vars

\* The controller constructed on a BOM page as createBomPages makes it: the
\* page's fabricJSON holds the loose parts of the table, and the callback of
\* the construction's loadFromJSON consolidates them into the group.
BomPageJson == <<BomPart(InitialPage, "bom-layout"), BomPart(InitialPage, "bom-cell-text")>>

ConstructedBom ==
  reloaded(
    [canvas |-> << >>, history |-> << >>, historyIndex |-> -1, hasPageChanges |-> FALSE,
     isRestoring |-> TRUE, isApplyingDecorations |-> FALSE, decorVersion |-> 0,
     currentPageId |-> InitialPage, isDisposed |-> FALSE, pendingDecor |-> {},
     clipboard |-> << >>, calls |-> << >>],
    [kind |-> "page", json |-> BomPageJson, pg |-> InitialPage])

InitBom ==
  /\ canvas = ConstructedBom.canvas
  /\ history = ConstructedBom.history
  /\ historyIndex = ConstructedBom.historyIndex
  /\ hasPageChanges = ConstructedBom.hasPageChanges
  /\ isRestoring = ConstructedBom.isRestoring
  /\ isApplyingDecorations = ConstructedBom.isApplyingDecorations
  /\ decorVersion = ConstructedBom.decorVersion
  /\ currentPageId = ConstructedBom.currentPageId
  /\ isDisposed = ConstructedBom.isDisposed
  /\ pendingDecor = ConstructedBom.pendingDecor
  /\ clipboard = << >>
  /\ calls = ConstructedBom.calls
  /\ textChangeTimer = FALSE
  /\ pendingLoads = << >>
  /\ pendingImages = << >>
  /\ store = ApplyCalls([p \in Pages |-> IF p = InitialPage THEN Json(BomPageJson) ELSE NoJson],
                        ConstructedBom.calls)
  /\ ops = 0
  /\ undoRun = 0
  /\ burst = NoBurst
  /\ scene = NoScene
  /\ last = "init"

BomBudget == ops < MaxBomOps /\ ops' = ops + 1 /\ PassRoom

NextBom ==
  \/ BomBudget /\ AddText
  \/ BomBudget /\ \E i \in 0..Len(canvas) : Select(i)
  \/ BomBudget /\ \E i \in 1..Len(canvas) : SelectAlso(i)
  \/ BomBudget /\ Copy
  \/ BomBudget /\ Cut
  \/ BomBudget /\ Paste
  \/ BomBudget /\ DeleteActive
  \/ BomBudget /\ \E i \in 1..Len(canvas), sc \in {50, 100, 200} : Resize(i, sc)
  \/ BomBudget /\ \E i \in 1..Len(canvas), deg \in {0, 30} : Rotate(i, deg)
  \/ BomBudget /\ Undo
  \/ Free /\ \E load \in pendingDecor : DecorLoadDone(load)

SpecBom == InitBom /\ [][NextBom]_vars

\* The BOM-group consolidation step on its own, run up to MaxRuns times in a
\* row on a graph as loadFromJSON leaves it at the step's call sites (the
\* loadFromJSON callbacks of construction, loadPage, undo and redo, all under
\* isRestoring).  A loaded graph is a page made by createBomPages, possibly
\* with other content (loose parts, no group), or a committed snapshot (no
\* loose part and at most one tagged group, in any size a resize or an older
\* version may have left it, beside texts, the contact block and untagged
\* copies of the group).
LoadedObjects ==
  {TextObj(InitialPage), DecoObj(CONTACT_INFO_ID),
   BomPart(InitialPage, "bom-layout"), BomPart(InitialPage, "bom-cell-text"),
   clone(BomGroup(InitialPage, 2))}
  \cup {[BomGroup(InitialPage, 2) EXCEPT !.scale = sc] : sc \in {50, 100, 200}}

LoadedGraph(g) ==
  LET groups == {i \in 1..Len(g) : g[i].id = BOM_TABLE_GROUP_ID}
      bomParts == {i \in 1..Len(g) : isBomTablePart(g[i])}
  IN \/ groups = {}
     \/ bomParts = {} /\ Cardinality(groups) = 1

InitGroup ==
  /\ canvas \in {g \in UNION {[1..n -> LoadedObjects] : n \in 0..MaxLoaded} : LoadedGraph(g)}
  /\ history = << >>
  /\ historyIndex = -1
  /\ hasPageChanges = FALSE
  /\ isRestoring = TRUE
  /\ isApplyingDecorations = FALSE
  /\ decorVersion = 0
  /\ currentPageId = InitialPage
  /\ isDisposed = FALSE
  /\ pendingDecor = {}
  /\ clipboard = << >>
  /\ calls = << >>
  /\ textChangeTimer = FALSE
  /\ pendingLoads = << >>
  /\ pendingImages = << >>
  /\ store = [p \in Pages |-> NoJson]
  /\ ops = 0
  /\ undoRun = 0
  /\ burst = NoBurst
  /\ scene = NoScene
  /\ last = "init"

Consolidate ==
  /\ ops < MaxRuns
  /\ ops' = ops + 1
  /\ Done("ensureBomTableGroup", ensureBomTableGroup(Ctl))
  /\ UNCHANGED <<textChangeTimer, pendingLoads, pendingImages>>

NextGroup == Consolidate

SpecGroup == InitGroup /\ [][NextGroup]_vars

\* ------------------------------------------------------------ onObjectMoving
\* Lengths are in half pixels, so that the centre of a box of whole-pixel size
\* and the centre of the 794 x 1123 page are integers.
HalfPx(n) == 2 * n
Abs(n) == IF n < 0 THEN -n ELSE n
Min(a, b) == IF a < b THEN a ELSE b

\* obj.getBoundingRect(true, true) of an unrotated object.
Box(l, tp, w, h, deco) == [left |-> l, top |-> tp, width |-> w, height |-> h, deco |-> deco]
CenterX(b) == b.left + b.width \div 2
CenterY(b) == b.top + b.height \div 2

\* xCandidates / yCandidates of every sibling, in the order the loops visit them.
RECURSIVE xDeltas(_, _)
xDeltas(tg, objs) ==
  IF objs = << >> THEN << >>
  ELSE LET b == Head(objs)
       IN <<b.left - tg.left,
            (b.left + b.width) - (tg.left + tg.width),
            CenterX(b) - CenterX(tg)>> \o xDeltas(tg, Tail(objs))

RECURSIVE yDeltas(_, _)
yDeltas(tg, objs) ==
  IF objs = << >> THEN << >>
  ELSE LET b == Head(objs)
       IN <<b.top - tg.top,
            (b.top + b.height) - (tg.top + tg.height),
            CenterY(b) - CenterY(tg)>> \o yDeltas(tg, Tail(objs))

\* if (Math.abs(delta) < Math.abs(best)) best = delta, over the candidates.
RECURSIVE bestDelta(_, _)
bestDelta(ds, best) ==
  IF ds = << >> THEN best
  ELSE bestDelta(Tail(ds), IF Abs(Head(ds)) < Abs(best) THEN Head(ds) ELSE best)

\* The page-centre test with half the threshold.
nearPageCenterByHalf(c, pageCenter) == Abs(c - pageCenter) <= HalfPx(GUIDE_SNAP_THRESHOLD) \div 2

\* Math.abs(newCenter.x - pageCenterX) <= GUIDE_SNAP_THRESHOLD, and for y.
nearPageCenter(c, pageCenter) == Abs(c - pageCenter) <= HalfPx(GUIDE_SNAP_THRESHOLD)

\* onObjectMoving(target) on a graph whose other objects are objs: the snap
\* to the nearest sibling edge on each axis, the snap to the page centre, the
\* clamp to the page.
onObjectMoving(tg, objs) ==
  LET pageWidth == HalfPx(A4_PX.width)
      pageHeight == HalfPx(A4_PX.height)
      T == HalfPx(GUIDE_SNAP_THRESHOLD)
      center == [x |-> CenterX(tg), y |-> CenterY(tg)]
      pageCenterX == pageWidth \div 2
      pageCenterY == pageHeight \div 2
      otherObjects == SelectSeq(objs, LAMBDA o : ~o.deco)
      bestDx == bestDelta(xDeltas(tg, otherObjects), HalfPx(GUIDE_SNAP_THRESHOLD + 1))
      bestDy == bestDelta(yDeltas(tg, otherObjects), HalfPx(GUIDE_SNAP_THRESHOLD + 1))
      t1 == IF Abs(bestDx) <= T THEN [tg EXCEPT !.left = @ + bestDx] ELSE tg
      t2 == IF Abs(bestDy) <= T THEN [t1 EXCEPT !.top = @ + bestDy] ELSE t1
      newCenter == [x |-> CenterX(t2), y |-> CenterY(t2)]
      t3 == IF nearPageCenter(newCenter.x, pageCenterX)
              THEN [t2 EXCEPT !.left = pageCenterX - tg.width \div 2,
                              !.top = center.y - tg.height \div 2]
              ELSE t2
      t4 == IF nearPageCenter(newCenter.y, pageCenterY)
              THEN [t3 EXCEPT !.top = pageCenterY - tg.height \div 2]
              ELSE t3
      offX0 == IF t4.left < 0 THEN -t4.left ELSE 0
      offsetX == IF t4.left + t4.width > pageWidth
                   THEN Min(offX0, 0) + (pageWidth - (t4.left + t4.width))
                   ELSE offX0
      offY0 == IF t4.top < 0 THEN -t4.top ELSE 0
      offsetY == IF t4.top + t4.height > pageHeight
                   THEN Min(offY0, 0) + (pageHeight - (t4.top + t4.height))
                   ELSE offY0
  IN [t4 EXCEPT !.left = @ + offsetX, !.top = @ + offsetY]

\* The controller's variables, left alone by the functions checked on their own.
ctl == <<canvas, history, historyIndex, hasPageChanges, isRestoring,
         isApplyingDecorations, decorVersion, currentPageId, isDisposed,
         textChangeTimer, pendingLoads, pendingDecor, pendingImages, clipboard,
         store, calls, undoRun, burst>>

Idle ==
  /\ canvas = << >>
  /\ history = << >>
  /\ historyIndex = -1
  /\ hasPageChanges = FALSE
  /\ isRestoring = FALSE
  /\ isApplyingDecorations = FALSE
  /\ decorVersion = 0
  /\ currentPageId = InitialPage
  /\ isDisposed = FALSE
  /\ pendingDecor = {}
  /\ clipboard = << >>
  /\ calls = << >>
  /\ textChangeTimer = FALSE
  /\ pendingLoads = << >>
  /\ pendingImages = << >>
  /\ store = [p \in Pages |-> NoJson]
  /\ ops = 0
  /\ undoRun = 0
  /\ burst = NoBurst
  /\ last = "init"

\* The dragged object (a text box 100, 590 or 800 px wide) at the position the
\* pointer has dragged it to, and the rest of the graph: nothing, a sibling, a
\* decoration, a sibling and a decoration, or two siblings.  result is the
\* object's box once the handler has run.
SiblingA == Box(HalfPx(100), HalfPx(200), HalfPx(60), HalfPx(30), FALSE)
SiblingB == Box(HalfPx(91), HalfPx(700), HalfPx(60), HalfPx(30), FALSE)
SiblingC == Box(HalfPx(-3), HalfPx(900), HalfPx(60), HalfPx(30), FALSE)
SiblingD == Box(HalfPx(300), HalfPx(200), HalfPx(60), HalfPx(30), FALSE)
HeaderBox == Box(HalfPx(97), HalfPx(197), HalfPx(600), HalfPx(40), TRUE)
Graphs == {<< >>, <<SiblingA>>, <<SiblingB>>, <<SiblingC>>, <<SiblingD>>, <<HeaderBox>>,
           <<HeaderBox, SiblingA>>, <<SiblingA, SiblingB>>}

InitMove ==
  /\ Idle
  /\ \E l \in (-5)..2 \cup 95..108, tp \in {100} \cup 196..204, w \in {100, 590, 800}, g \in Graphs :
       scene = [of |-> "onObjectMoving",
                target |-> Box(HalfPx(l), HalfPx(tp), HalfPx(w), HalfPx(40), FALSE),
                others |-> g,
                result |-> Box(HalfPx(l), HalfPx(tp), HalfPx(w), HalfPx(40), FALSE)]

\* object:moving on the dragged object.
Move ==
  /\ ops < MaxMoves
  /\ ops' = ops + 1
  /\ scene' = [scene EXCEPT !.result = onObjectMoving(scene.target, scene.others)]
  /\ last' = "moving"
  /\ UNCHANGED ctl

NextMove == Move

SpecMove == InitMove /\ [][NextMove]_vars

\* ----------------------------------------------------------------------
\* The BOM table composer (bomTableUtils.ts).  A text is the list of its
\* tokens: a token is one whitespace character (" " or "\n") or a maximal
\* run of other characters, so that splitting, wrapping and joining act on
\* the text as the code's string operations do.
\* ----------------------------------------------------------------------
Undefined == "undefined"
isSpace(t) == t \in {" ", "\n"}
Max(a, b) == IF a > b THEN a ELSE b

\* text.length
RECURSIVE textLength(_)
textLength(text) ==
  IF text = << >> THEN 0 ELSE Len(Head(text)) + textLength(Tail(text))

\* The word of a text that starts at token i: the run up to the next
\* whitespace character.
RECURSIVE wordAt(_, _)
wordAt(text, i) ==
  IF i < Len(text) /\ ~isSpace(text[i + 1]) THEN text[i] \o wordAt(text, i + 1)
  ELSE text[i]

\* text.split(/\s+/).filter(Boolean)
splitWords(text) ==
  LET starts == SelectSeq([i \in 1..Len(text) |-> i],
                          LAMBDA i : /\ ~isSpace(text[i])
                                     /\ (i = 1 \/ isSpace(text[i - 1])))
  IN  [k \in 1..Len(starts) |-> wordAt(text, starts[k])]

\* One iteration of the loop of wrapBomTextByChars: word i joins the line
\* under construction or starts the next one.
wrapStep(words, maxChars, st) ==
  LET next == st.current \o <<" ", words[st.i]>> IN
  IF textLength(next) > maxChars
    THEN [i |-> st.i + 1, current |-> <<words[st.i]>>, lines |-> Append(st.lines, st.current)]
    ELSE [i |-> st.i + 1, current |-> next, lines |-> st.lines]

\* n iterations of that loop from loop state st: the first half of them,
\* then the rest from the state they leave.
RECURSIVE wrapLoop(_, _, _, _)
wrapLoop(words, maxChars, n, st) ==
  IF n = 0 THEN st
  ELSE IF n = 1 THEN wrapStep(words, maxChars, st)
  ELSE LET half == wrapLoop(words, maxChars, n \div 2, st) IN
       IF half.i > st.i THEN wrapLoop(words, maxChars, n - (n \div 2), half) ELSE half

wrapBomTextByChars(text, maxChars) ==
  LET words == splitWords(text) IN
  IF Len(words) = 0 THEN << << >> >>
  ELSE LET end == wrapLoop(words, maxChars, Len(words) - 1,
                           [i |-> 2, current |-> <<words[1]>>, lines |-> << >>])
       IN  Append(end.lines, end.current)

getBomRowHeight(row) ==
  LET lines == Len(wrapBomTextByChars(row.description, 42)) IN
  Max(16, lines * 12 + 4)

\* One iteration of the forEach of chunkBomRows: row i joins the chunk under
\* construction or starts the next one.
chunkStep(rows, st) ==
  LET row == rows[st.i]
      height == getBomRowHeight(row)
      pageEnd == BOM_PAGE_HEIGHT - BOM_TABLE_BOTTOM
  IN  IF st.y + height > pageEnd /\ Len(st.current) > 0
        THEN [i |-> st.i + 1, chunks |-> Append(st.chunks, st.current),
              current |-> <<row>>, y |-> BOM_TABLE_TOP + BOM_HEADER_HEIGHT + height]
        ELSE [i |-> st.i + 1, chunks |-> st.chunks,
              current |-> Append(st.current, row), y |-> st.y + height]

\* n iterations of that forEach from loop state st: the first half of them,
\* then the rest from the state they leave.
RECURSIVE chunkLoop(_, _, _)
chunkLoop(rows, n, st) ==
  IF n = 0 THEN st
  ELSE IF n = 1 THEN chunkStep(rows, st)
  ELSE LET half == chunkLoop(rows, n \div 2, st) IN
       IF half.i > st.i THEN chunkLoop(rows, n - (n \div 2), half) ELSE half

chunkBomRows(rows) ==
  LET end == chunkLoop(rows, Len(rows),
                       [i |-> 1, chunks |-> << >>, current |-> << >>,
                        y |-> BOM_TABLE_TOP + BOM_HEADER_HEIGHT])
      pushed == IF Len(end.current) > 0 THEN Append(end.chunks, end.current)
                ELSE end.chunks
  IN  IF Len(pushed) = 0 THEN << << >> >> ELSE pushed

\* The nodes of a page's JSON, with the fields the layout gives them.
makeRect(left, top, width, height) ==
  [type |-> "rect", id |-> "bom-layout", text |-> << >>, left |-> left,
   top |-> top, width |-> width, height |-> height, bold |-> FALSE]
makeHeaderText(text, left, top) ==
  [type |-> "text", id |-> "bom-layout", text |-> text, left |-> left,
   top |-> top, width |-> 0, height |-> 0, bold |-> TRUE]
makeCellText(text, left, top, width, bold) ==
  [type |-> "textbox", id |-> "bom-cell-text", text |-> text, left |-> left,
   top |-> top, width |-> width, height |-> 0, bold |-> bold]

\* String(value || ""), as a text
cellString(v) == IF v = Undefined \/ v = "" THEN << >> ELSE <<v>>

\* lines.join(sep), the lines from..to being joined
RECURSIVE joinLoop(_, _, _, _)
joinLoop(lines, sep, from, to) ==
  IF from = to THEN lines[from]
  ELSE LET mid == (from + to) \div 2 IN
       joinLoop(lines, sep, from, mid) \o sep \o joinLoop(lines, sep, mid + 1, to)

joinWith(lines, sep) == joinLoop(lines, sep, 1, Len(lines))

\* The description cell's text: the wrapped lines joined by line breaks.
descLinesUnbroken(row) == joinWith(wrapBomTextByChars(row.description, 42), << >>)
descLines(row) == joinWith(wrapBomTextByChars(row.description, 42), <<"\n">>)

\* x of column k (1..5) and of the right edge of column k
RECURSIVE colX(_)
colX(k) == IF k = 1 THEN BOM_TABLE_X ELSE colX(k - 1) + BOM_COL_WIDTHS[k - 1]

headers == << <<"Part">>, <<"Description">>, <<"Unit", " ", "Price">>,
             <<"Qty">>, <<"Total">> >>

RECURSIVE headerNodes(_, _)
headerNodes(k, y) ==
  IF k > 5 THEN << >>
  ELSE <<makeRect(colX(k), y, BOM_COL_WIDTHS[k], BOM_HEADER_HEIGHT),
         makeHeaderText(headers[k], colX(k) + 4, y + 3)>> \o headerNodes(k + 1, y)

rowNodes(row, y) ==
  LET rowHeight == getBomRowHeight(row)
      cell(k, text) == makeCellText(text, colX(k) + 4, y + 2, BOM_COL_WIDTHS[k] - 8, row.isBold)
  IN  [k \in 1..5 |-> makeRect(colX(k), y, BOM_COL_WIDTHS[k], rowHeight)]
        \o <<cell(1, row.part), cell(2, descLines(row)), cell(3, cellString(row.unitPrice)),
             cell(4, cellString(row.qty)), cell(5, cellString(row.total))>>

\* One iteration of the forEach of buildPageJson over the rows, and n
\* iterations of it from loop state st.
layoutStep(rows, st) ==
  [i |-> st.i + 1, objects |-> st.objects \o rowNodes(rows[st.i], st.y),
   y |-> st.y + getBomRowHeight(rows[st.i])]

RECURSIVE layoutLoop(_, _, _)
layoutLoop(rows, n, st) ==
  IF n = 0 THEN st
  ELSE IF n = 1 THEN layoutStep(rows, st)
  ELSE LET half == layoutLoop(rows, n \div 2, st) IN
       IF half.i > st.i THEN layoutLoop(rows, n - (n \div 2), half) ELSE half

totalNodes(grandTotal, y) ==
  LET leftWidth == BOM_COL_WIDTHS[1] + BOM_COL_WIDTHS[2] + BOM_COL_WIDTHS[3] + BOM_COL_WIDTHS[4]
      rowHeight == 16
  IN  <<makeRect(BOM_TABLE_X, y, leftWidth, rowHeight),
        makeRect(BOM_TABLE_X + leftWidth, y, BOM_COL_WIDTHS[5], rowHeight),
        makeHeaderText(<<"Total:">>, BOM_TABLE_X + leftWidth - 44, y + 3),
        makeCellText(cellString(grandTotal), BOM_TABLE_X + leftWidth + 4, y + 2,
                     BOM_COL_WIDTHS[5] - 8, TRUE)>>

buildPageJson(rows, grandTotal, includeTotal) ==
  LET body == layoutLoop(rows, Len(rows), [i |-> 1, objects |-> << >>,
                                           y |-> BOM_TABLE_TOP + BOM_HEADER_HEIGHT]) IN
  [version |-> "5.3.0",
   objects |-> headerNodes(1, BOM_TABLE_TOP)
                 \o body.objects
                 \o (IF includeTotal THEN totalNodes(grandTotal, body.y) ELSE << >>)]

\* The page ids are fresh identifiers; the k-th page gets the k-th.
createBomPages(data) ==
  LET chunks == chunkBomRows(data.rows) IN
  [index \in 1..Len(chunks) |->
     [id |-> index, name |-> index,
      fabricJSON |-> buildPageJson(chunks[index], data.grandTotal, index = Len(chunks))]]

\* The tables handed to the composer: every list of up to MaxRows rows of
\* these kinds, a table of 40 rows of two lines each, and one of 30 such rows,
\* which fill a page to 7 px above the printable end.
RECURSIVE Letters(_)
Letters(n) == IF n = 0 THEN "" ELSE "x" \o Letters(n - 1)

\* n words of len letters each, separated by the whitespace characters gap.
Phrase(n, len, gap) ==
  LET period == 1 + Len(gap) IN
  [k \in 1..(n + (n - 1) * Len(gap)) |->
     IF (k - 1) % period = 0 THEN Letters(len) ELSE gap[(k - 1) % period]]

Row(part, description) ==
  [part |-> <<part>>, description |-> description, unitPrice |-> Undefined,
   qty |-> "2", total |-> "10.00", isBold |-> FALSE]

PlainRow == Row("hinge", <<"soft", " ", "close">>)
BlankRow == Row("rail", << >>)
TwoLineRow == Row("shelf", Phrase(3, 20, <<" ", " ">>))
TallRow == Row("panel", <<" ">> \o Phrase(30, 30, <<"\n">>))
OversizeRow == Row("notes", Phrase(71, 30, <<" ">>))

RowKinds == {PlainRow, BlankRow, TwoLineRow, TallRow, OversizeRow}

FortyRows == [i \in 1..40 |-> TwoLineRow]
ThirtyRows == [i \in 1..30 |-> TwoLineRow]

Tables ==
  {FortyRows, ThirtyRows} \cup UNION {[1..n -> RowKinds] : n \in 0..MaxRows}

InitPages ==
  /\ Idle
  /\ \E rows \in Tables, grandTotal \in {Undefined, "1250.00"} :
       scene = [of |-> "createBomPages",
                data |-> [rows |-> rows, grandTotal |-> grandTotal],
                chunks |-> << >>,
                pages |-> << >>]

ChunkRows ==
  /\ ops < MaxLayouts
  /\ ops' = ops + 1
  /\ scene' = [scene EXCEPT !.chunks = chunkBomRows(scene.data.rows)]
  /\ last' = "chunkBomRows"
  /\ UNCHANGED ctl

CreatePages ==
  /\ ops < MaxLayouts
  /\ ops' = ops + 1
  /\ scene' = [scene EXCEPT !.pages = createBomPages(scene.data)]
  /\ last' = "createBomPages"
  /\ UNCHANGED ctl

NextPages == ChunkRows \/ CreatePages

SpecPages == InitPages /\ [][NextPages]_vars

\* ----------------------------------------------------------------------
\* The export composer (exportUtils.ts): the text layer of exportPagesAsPdf.
\* Angles are in hundredths of a degree, lengths in page pixels; a PDF
\* coordinate is the fraction num / den of a point.
\* ----------------------------------------------------------------------
scaleXAsScaleY == [num |-> PDF_PAGE_HEIGHT, den |-> A4_PX.height]
scaleX == [num |-> PDF_PAGE_WIDTH, den |-> A4_PX.width]
scaleY == [num |-> PDF_PAGE_HEIGHT, den |-> A4_PX.height]
Times(v, s) == [num |-> v * s.num, den |-> s.den]

\* angle % 360 of JavaScript: the sign of the dividend
Remainder(a, n) == IF a >= 0 THEN a % n ELSE -((-a) % n)

normalizeAngle(angle) ==
  LET value == Remainder(angle, 36000) IN
  IF value > 18000 THEN value - 36000
  ELSE IF value < -18000 THEN value + 36000
  ELSE value

getTextAngle(obj) == obj.angle
isFabricTextObject(obj) == obj.type \in {"text", "i-text", "textbox"}
trim(text) == IF text \in {"", " ", "  "} THEN "" ELSE text

\* obj.getPointByOrigin(originX, "top") of an object whose own origin is its
\* top left corner; along the top edge of an unrotated object.
getPointByOrigin(obj, originX) ==
  [x |-> IF originX = "center" THEN obj.left + obj.width \div 2
         ELSE IF originX = "right" THEN obj.left + obj.width
         ELSE obj.left,
   y |-> obj.top]

\* The text objects of the loaded page, by position in the graph: the text
\* nodes that are not inside a group.
textObjects(objects) ==
  SelectSeq([i \in 1..Len(objects) |-> i],
            LAMBDA i : isFabricTextObject(objects[i]) /\ ~objects[i].inGroup)

\* One iteration of textObjects.forEach: the overlay of text object i, and
\* whether the object is hidden for the raster pass.
collectOverlay(objects, i, st) ==
  LET obj == objects[i]
      angle == normalizeAngle(getTextAngle(obj))
      isRotated == Abs(angle) > 1
      align == IF obj.textAlign \in {"center", "right"} THEN obj.textAlign ELSE "left"
      anchor == getPointByOrigin(obj, align)
  IN  IF trim(obj.text) = "" THEN st
      ELSE [hideForRaster |-> IF isRotated THEN st.hideForRaster
                              ELSE st.hideForRaster \cup {i},
            textOverlays |-> Append(st.textOverlays,
              [node |-> i, text |-> obj.text, x |-> anchor.x, y |-> anchor.y,
               maxWidth |-> IF ~isRotated /\ obj.type = "textbox" THEN obj.width ELSE 0,
               angle |-> angle, align |-> align,
               renderingMode |-> IF isRotated THEN "invisible" ELSE "fill"])]

RECURSIVE collectOverlays(_, _, _)
collectOverlays(objects, todo, st) ==
  IF todo = << >> THEN st
  ELSE collectOverlays(objects, Tail(todo), collectOverlay(objects, Head(todo), st))

\* doc.text for one overlay
drawText(item) ==
  [node |-> item.node, text |-> item.text,
   x |-> Times(item.x, scaleX), y |-> Times(item.y, scaleY),
   angle |-> IF Abs(item.angle) > 1 THEN -item.angle ELSE 0,
   maxWidth |-> IF item.maxWidth > 0 THEN Times(item.maxWidth, scaleX) ELSE Times(0, scaleX),
   align |-> item.align, renderingMode |-> item.renderingMode]

\* The PDF page of one editor page: the objects painted into the page image
\* and the texts drawn over it.
exportPage(objects) ==
  LET collected == collectOverlays(objects, textObjects(objects),
                                   [hideForRaster |-> {}, textOverlays |-> << >>])
  IN  [image |-> {i \in 1..Len(objects) : i \notin collected.hideForRaster},
       texts |-> [k \in 1..Len(collected.textOverlays) |->
                    drawText(collected.textOverlays[k])]]

exportPagesAsPdf(pages) ==
  <<[image |-> {"cover"}, texts |-> << >>]>>
    \o [i \in 1..Len(pages) |-> exportPage(pages[i])]

\* The text nodes exported: a note, blank or not, at one of two places, left
\* aligned or centred, turned by 0, 0.01, 30, 330, 360 or -30 degrees (a
\* centred node is not turned), and a title inside a group.
TextNode(type, text, left, angle, textAlign) ==
  [type |-> type, text |-> text, left |-> left, top |-> 300, width |-> 200,
   angle |-> angle, textAlign |-> textAlign, inGroup |-> FALSE]

TextNodes ==
  {TextNode(type, text, left, angle, "left") :
     type \in {"i-text", "textbox"}, text \in {"Note", "  "}, left \in {40, 297},
     angle \in {0, 1, 3000, 33000, 36000, -3000}}
  \cup {TextNode("textbox", "Note", 297, 0, "center"),
        [TextNode("text", "Title", 297, 0, "left") EXCEPT !.inGroup = TRUE]}

InitExport ==
  /\ Idle
  /\ \E n \in 0..MaxTexts : \E objects \in [1..n -> TextNodes] :
       scene = [of |-> "exportPagesAsPdf", pages |-> <<objects>>, doc |-> << >>]

ExportPdf ==
  /\ ops < MaxExports
  /\ ops' = ops + 1
  /\ scene' = [scene EXCEPT !.doc = exportPagesAsPdf(scene.pages)]
  /\ last' = "exportPagesAsPdf"
  /\ UNCHANGED ctl

NextExport == ExportPdf

SpecExport == InitExport /\ [][NextExport]_vars

\* ----------------------------------------------------------------------
\* The editor shell (EditorTab) around the controller: captures taken in the
\* scene tab wait in the store's pendingCaptures and are added as images to
\* the first page.  scene holds the shell's state: the store's activePageId
\* and pendingCaptures, pendingCaptureBufferRef, processedCaptureIdsRef and
\* the number of captures taken.  A capture is its id; its dataUrl is not
\* empty.  The canvas is ready from the construction on.
\* ----------------------------------------------------------------------
FirstPage == InitialPage

\* addCaptureImages(queue): the ids marked processed, and the ids handed to
\* handle.addImage, in order.
RECURSIVE addCaptureImages(_, _)
addCaptureImages(queue, done) ==
  IF queue = << >> THEN done
  ELSE IF Head(queue) \in done.processed THEN addCaptureImages(Tail(queue), done)
  ELSE addCaptureImages(Tail(queue),
         [processed |-> done.processed \cup {Head(queue)},
          added |-> Append(done.added, Head(queue))])

\* handle.addImage(dataUrl) for each of these captures: a fabric.Image.fromURL
\* in flight, started while page pg was loaded.
addImages(added, pg) == [k \in 1..Len(added) |-> [kind |-> "add", pg |-> pg]]

InitShell ==
  /\ canvas = Constructed.canvas
  /\ history = Constructed.history
  /\ historyIndex = Constructed.historyIndex
  /\ hasPageChanges = Constructed.hasPageChanges
  /\ isRestoring = Constructed.isRestoring
  /\ isApplyingDecorations = Constructed.isApplyingDecorations
  /\ decorVersion = Constructed.decorVersion
  /\ currentPageId = Constructed.currentPageId
  /\ isDisposed = Constructed.isDisposed
  /\ pendingDecor = Constructed.pendingDecor
  /\ clipboard = << >>
  /\ calls = << >>
  /\ textChangeTimer = FALSE
  /\ pendingLoads = << >>
  /\ pendingImages = << >>
  /\ store = [p \in Pages |-> NoJson]
  /\ ops = 0
  /\ undoRun = 0
  /\ burst = NoBurst
  /\ scene = [of |-> "EditorTab", activePageId |-> InitialPage, pendingCaptures |-> << >>,
              buffer |-> << >>, processed |-> {}, taken |-> 0]
  /\ last = "init"

\* The effects of the last render have run: the user can act again.
Rendered == scene.pendingCaptures = << >> /\ scene.activePageId = currentPageId

\* store.addCapture(dataUrl) in the scene tab.
AddCapture ==
  /\ Rendered
  /\ ops < MaxShellOps
  /\ scene.taken < MaxCaptures
  /\ ops' = ops + 1
  /\ EffectOn("addCapture", Ctl,
              [scene EXCEPT !.taken = @ + 1,
                            !.pendingCaptures = Append(@, scene.taken + 1)])
  /\ UNCHANGED <<undoRun, textChangeTimer, pendingLoads, pendingImages>>

\* The effect on pendingCaptures.length: on another page than the first the
\* captures go to the buffer and the first page is made the active one; on
\* the first page they are added.
CaptureEffect ==
  /\ scene.pendingCaptures # << >>
  /\ IF scene.activePageId # FirstPage
       THEN /\ EffectOn("capturesBuffered", Ctl,
                        [scene EXCEPT !.pendingCaptures = << >>,
                                      !.buffer = @ \o scene.pendingCaptures,
                                      !.activePageId = FirstPage])
            /\ UNCHANGED pendingImages
       ELSE LET done == addCaptureImages(scene.pendingCaptures,
                                         [processed |-> scene.processed, added |-> << >>])
            IN  /\ EffectOn("capturesAdded", Ctl,
                            [scene EXCEPT !.pendingCaptures = << >>,
                                          !.processed = done.processed])
                /\ pendingImages' = pendingImages \o addImages(done.added, currentPageId)
  /\ UNCHANGED <<ops, undoRun, textChangeTimer, pendingLoads>>

\* The user picks page p in the page list: store.setActivePageId(p).
SelectPage(p) ==
  /\ Rendered
  /\ ops < MaxShellOps
  /\ p # scene.activePageId
  /\ ops' = ops + 1
  /\ EffectOn("selectPage", Ctl, [scene EXCEPT !.activePageId = p])
  /\ UNCHANGED <<undoRun, textChangeTimer, pendingLoads, pendingImages>>

\* The effects on the active page's id: FabricCanvas calls loadPage(page), then
\* EditorTab adds the buffered captures if the first page is the active one.
PageEffects ==
  /\ scene.activePageId # currentPageId
  /\ PassRoom
  /\ LET p == scene.activePageId
         none == [processed |-> scene.processed, added |-> << >>]
         done == IF p = FirstPage THEN addCaptureImages(scene.buffer, none) ELSE none
     IN  /\ EffectOn("pageEffects", loadPage(Ctl, p),
                     [scene EXCEPT !.buffer = IF p = FirstPage THEN << >> ELSE @,
                                   !.processed = done.processed])
         /\ pendingLoads' = IF store[p].has /\ HasImages(store[p].objects)
                              THEN Append(pendingLoads, [kind |-> "page", json |-> store[p].objects, pg |-> p])
                              ELSE pendingLoads
         /\ pendingImages' = (IF ~store[p].has /\ resolvePageDefaultImages(p) > 0
                                THEN Append(pendingImages, [kind |-> "default", pg |-> p])
                                ELSE pendingImages) \o addImages(done.added, p)
  /\ undoRun' = 0
  /\ UNCHANGED <<ops, textChangeTimer>>

NextCapture ==
  \/ AddCapture
  \/ CaptureEffect
  \/ \E p \in Pages : SelectPage(p)
  \/ PageEffects
  \/ Free /\ \E i \in 1..Len(pendingLoads) : ReloadDone(i)
  \/ Free /\ \E load \in pendingDecor : DecorLoadDone(load)
  \/ Free /\ \E i \in 1..Len(pendingImages) : ImageLoadDone(i, TRUE)

SpecCapture == InitShell /\ [][NextCapture]_vars

\* ----------------------------------------------------------------------
\* The document store (Store, src/src/state/Store.ts): the page list and the
\* active page's id.  scene holds the store's state: pages (each page its id
\* and its fabricJSON, Null or a JSON value; names and default images are left
\* out), activePageId ("" for null), the number of ids crypto.randomUUID() has
\* handed out, whether the last operation wrote the session snapshot, and the
\* state before the last operation.
\* ----------------------------------------------------------------------
Null == "null"
NewIds == <<"p3", "p4", "p5">>
randomUUID(st) == NewIds[st.nextId + 1]

\* Array.prototype.findIndex on the page ids: 0-based, -1 when none matches.
findIndex(pages, id) ==
  LET hits == {i \in 1..Len(pages) : pages[i].id = id}
  IN IF hits = {} THEN -1 ELSE (CHOOSE i \in hits : \A j \in hits : i <= j) - 1

\* pages.splice(start, 1): a negative start counts from the end.
spliceOne(pages, start) ==
  LET from == IF start < 0 THEN Max(Len(pages) + start, 0) ELSE start
  IN RemoveAt(pages, from + 1)

persistSessionSnapshot(st) == [st EXCEPT !.persisted = TRUE]

setActivePageId(st, id) == persistSessionSnapshot([st EXCEPT !.activePageId = id])

setPageFabricJSON(st, pageId, json) ==
  LET idx == findIndex(st.pages, pageId)
  IN IF pageId = "" THEN st
     ELSE IF idx >= 0
       THEN persistSessionSnapshot([st EXCEPT !.pages[idx + 1].fabricJSON = json])
     ELSE st

addPage(st, copyOfActive) ==
  LET idx == findIndex(st.pages, st.activePageId)
      page == [id |-> randomUUID(st),
               fabricJSON |-> IF copyOfActive /\ idx >= 0 THEN st.pages[idx + 1].fabricJSON
                              ELSE Null]
  IN persistSessionSnapshot([st EXCEPT !.pages = Append(@, page),
                                       !.activePageId = page.id,
                                       !.nextId = @ + 1])

\* deleteActivePage without its first line: on the last page the read of
\* this.pages[0].id throws once the page is spliced out.
deleteActivePageUnguarded(st) ==
  LET idx == findIndex(st.pages, st.activePageId)
      rest == spliceOne(st.pages, idx)
  IN IF rest = << >> THEN [st EXCEPT !.pages = rest]
     ELSE persistSessionSnapshot([st EXCEPT !.pages = rest,
                                            !.activePageId = rest[Max(0, idx - 1) + 1].id])

deleteActivePage(st) ==
  LET idx == findIndex(st.pages, st.activePageId)
      rest == spliceOne(st.pages, idx)
  IN IF Len(st.pages) <= 1 THEN st
     ELSE persistSessionSnapshot([st EXCEPT !.pages = rest,
                                            !.activePageId = rest[Max(0, idx - 1) + 1].id])

swapAdjacentPages(st, index) ==
  IF index < 0 \/ index >= Len(st.pages) - 1 THEN st
  ELSE persistSessionSnapshot(
         [st EXCEPT !.pages = [@ EXCEPT ![index + 1] = st.pages[index + 2],
                                        ![index + 2] = st.pages[index + 1]]])

movePage(st, fromIndex, toIndex) ==
  LET moved == st.pages[fromIndex + 1]
      rest == RemoveAt(st.pages, fromIndex + 1)
  IN IF fromIndex = toIndex THEN st
     ELSE IF fromIndex < 0 \/ fromIndex >= Len(st.pages) THEN st
     ELSE IF toIndex < 0 \/ toIndex >= Len(st.pages) THEN st
     ELSE persistSessionSnapshot(
            [st EXCEPT !.pages = SubSeq(rest, 1, toIndex) \o <<moved>> \o
                                 SubSeq(rest, toIndex + 1, Len(rest))])

\* loadSnapshot(snapshot): a page without an id gets a fresh one.
RECURSIVE loadedPages(_, _)
loadedPages(pages, st) ==
  IF pages = << >> THEN [st EXCEPT !.pages = << >>]
  ELSE LET given == Head(pages).id # ""
           page == [id |-> IF given THEN Head(pages).id ELSE randomUUID(st),
                    fabricJSON |-> Head(pages).fabricJSON]
           more == loadedPages(Tail(pages), IF given THEN st ELSE [st EXCEPT !.nextId = @ + 1])
       IN [more EXCEPT !.pages = <<page>> \o @]

loadSnapshot(st, snapshot) ==
  LET s1 == loadedPages(snapshot.pages, st)
      activeExists == findIndex(s1.pages, snapshot.activePageId) >= 0
  IN IF snapshot.schemaVersion # 1 \/ Len(snapshot.pages) = 0 THEN st
     ELSE [s1 EXCEPT !.activePageId = IF activeExists THEN snapshot.activePageId
                                      ELSE s1.pages[1].id]

\* The store after construction without a stored document: the default image
\* pages (none or one here, fabricJSON null) followed by the pages of
\* createBomPages (at least one, each with its JSON); the first page is active.
StorePage(id, json) == [id |-> id, fabricJSON |-> json]
Snapshots ==
  {[schemaVersion |-> v, pages |-> ps, activePageId |-> a] :
     v \in {1, 2}, a \in {"", "p1"},
     ps \in UNION {[1..n -> {StorePage(id, j) : id \in {"", "p1"}, j \in {Null, "a"}}] : n \in 0..2}}

StoreState == [pages |-> scene.pages, activePageId |-> scene.activePageId,
               nextId |-> scene.nextId, persisted |-> FALSE]

InitStore ==
  /\ Idle
  /\ \E ps \in {<<StorePage("p1", "bom")>>, <<StorePage("p1", Null), StorePage("p2", "bom")>>} :
       scene = [of |-> "Store", pages |-> ps, activePageId |-> ps[1].id, nextId |-> 0,
                persisted |-> TRUE, prev |-> [pages |-> ps, activePageId |-> ps[1].id]]

\* A call of a store operation that leaves the store in state st.
StoreOp(label, st) ==
  /\ ops < MaxStoreOps
  /\ ops' = ops + 1
  /\ Len(st.pages) <= MaxStorePages
  /\ st.nextId <= Len(NewIds)
  /\ scene' = [of |-> "Store", pages |-> st.pages, activePageId |-> st.activePageId,
               nextId |-> st.nextId, persisted |-> st.persisted,
               prev |-> [pages |-> scene.pages, activePageId |-> scene.activePageId]]
  /\ last' = label
  /\ UNCHANGED ctl

AddPage == scene.nextId < Len(NewIds) /\ \E c \in BOOLEAN : StoreOp("addPage", addPage(StoreState, c))
DeleteActivePage == StoreOp("deleteActivePage", deleteActivePage(StoreState))
MovePage == \E f \in -1..MaxStorePages, t \in -1..MaxStorePages : StoreOp("movePage", movePage(StoreState, f, t))
SwapAdjacentPages == \E i \in -1..MaxStorePages : StoreOp("swapAdjacentPages", swapAdjacentPages(StoreState, i))
SetActivePageId ==
  \E id \in {scene.pages[i].id : i \in 1..Len(scene.pages)} \cup {"gone"} :
    StoreOp("setActivePageId", setActivePageId(StoreState, id))
SetPageFabricJSON ==
  \E id \in {"", "p1", "p2", "gone"}, json \in {Null, "a"} :
    StoreOp("setPageFabricJSON", setPageFabricJSON(StoreState, id, json))
LoadSnapshot ==
  /\ scene.nextId + 2 <= Len(NewIds)
  /\ \E snapshot \in Snapshots : StoreOp("loadSnapshot", loadSnapshot(StoreState, snapshot))

NextStore ==
  \/ AddPage
  \/ DeleteActivePage
  \/ MovePage
  \/ SwapAdjacentPages
  \/ SetActivePageId
  \/ SetPageFabricJSON
  \/ LoadSnapshot

SpecStore == InitStore /\ [][NextStore]_vars

\* ----------------------------------------------------------------------
\* Layer, lock, visibility and opacity operations of the handle on the
\* current selection (pageUtils.ts, lines 44-85, 1246-1321 and 1787-1812).
\* ----------------------------------------------------------------------
isUserLockedObject(o) == o.locked
isDimmedObject(o) == o.dimmed

setUserLockedState(o, locked) == [o EXCEPT !.locked = locked]

setObjectDimmedState(o, dimmed) ==
  [setUserLockedState(o, dimmed) EXCEPT !.opacity = IF dimmed THEN 10 ELSE 100,
                                        !.dimmed = dimmed]

\* targets.filter((obj) => !isLockedDecorationId(obj.data?.id)) on the members
\* of the selection: their places in the draw order.
editableTargets(cv) == {i \in Selected(cv) : ~isLockedDecorationId(cv[i].id)}

moveLayer(s, direction) ==
  LET cv == s.canvas
      isTarget(o) == o.sel /\ ~isLockedDecorationId(o.id)
      orderedTargets == SelectSeq(cv, isTarget)
      others == SelectSeq(cv, LAMBDA o : ~isTarget(o))
      moved == IF direction = "up" THEN others \o orderedTargets ELSE orderedTargets \o others
  IN IF editableTargets(cv) = {} THEN s
     ELSE pushHistory([s EXCEPT !.canvas = bringDecorationsToFront(moved)])

toggleObjectLock(s) ==
  LET cv == s.canvas
      targets == editableTargets(cv)
      allLocked == \A i \in targets : isUserLockedObject(cv[i])
      hasDimmed == \E i \in targets : isDimmedObject(cv[i])
      shouldUnlock == allLocked /\ ~hasDimmed
  IN IF targets = {} THEN s
     ELSE pushHistory([s EXCEPT !.canvas = [i \in 1..Len(cv) |->
            IF i \in targets THEN setUserLockedState(cv[i], ~shouldUnlock) ELSE cv[i]]])

toggleObjectVisibility(s) ==
  LET cv == s.canvas
      targets == editableTargets(cv)
      shouldUndim == \A i \in targets : isDimmedObject(cv[i])
  IN IF targets = {} THEN s
     ELSE pushHistory([s EXCEPT !.canvas = [i \in 1..Len(cv) |->
            IF i \in targets THEN setObjectDimmedState(cv[i], ~shouldUndim) ELSE cv[i]]])

\* handle.setOpacity(opacityValue), the value in percent.
setOpacity(s, opacityValue) ==
  LET cv == s.canvas
      targets == editableTargets(cv)
      value == Max(5, Min(100, opacityValue))
  IN IF targets = {} THEN s
     ELSE pushHistory([s EXCEPT !.canvas = [i \in 1..Len(cv) |->
            IF i \in targets THEN [cv[i] EXCEPT !.opacity = value, !.dimmed = FALSE]
            ELSE cv[i]]])

\* A call of the handle in SpecLayer: scene keeps the calls made so far.
LayerStep(label, s) ==
  /\ EffectOn(label, s, [scene EXCEPT !.log = Append(@, label)])
  /\ undoRun' = 0

MoveLayer(direction) ==
  /\ LayerStep(IF direction = "up" THEN "layerUp" ELSE "layerDown", moveLayer(Ctl, direction))
  /\ UNCHANGED <<textChangeTimer, pendingLoads, pendingImages>>

ToggleLock ==
  /\ LayerStep("toggleLock", toggleObjectLock(Ctl))
  /\ UNCHANGED <<textChangeTimer, pendingLoads, pendingImages>>

ToggleVisibility ==
  /\ LayerStep("toggleVisibility", toggleObjectVisibility(Ctl))
  /\ UNCHANGED <<textChangeTimer, pendingLoads, pendingImages>>

SetOpacity(opacityValue) ==
  /\ LayerStep("setOpacity", setOpacity(Ctl, opacityValue))
  /\ UNCHANGED <<textChangeTimer, pendingLoads, pendingImages>>

\* The controller constructed on a page whose stored JSON holds up to
\* MaxLayerObjs texts below the contact block: a text is plain, user-locked,
\* at a manual opacity of 50 %, or dimmed.  The footer and stamp images of the
\* construction's decoration pass have loaded, and the user has clicked and
\* shift-clicked a selection together (any of the objects that can be selected).
LayerTexts ==
  {TextObj(InitialPage),
   setUserLockedState(TextObj(InitialPage), TRUE),
   [TextObj(InitialPage) EXCEPT !.opacity = 50],
   setObjectDimmedState(TextObj(InitialPage), TRUE)}

StoredPages ==
  {g \o <<DecoObj(CONTACT_INFO_ID)>> : g \in UNION {[1..n -> LayerTexts] : n \in 0..MaxLayerObjs}}

ConstructedOn(json) ==
  LET s0 == reloaded(
              [canvas |-> << >>, history |-> << >>, historyIndex |-> -1, hasPageChanges |-> FALSE,
               isRestoring |-> TRUE, isApplyingDecorations |-> FALSE, decorVersion |-> 0,
               currentPageId |-> InitialPage, isDisposed |-> FALSE, pendingDecor |-> {},
               clipboard |-> << >>, calls |-> << >>],
              [kind |-> "page", json |-> json, pg |-> InitialPage])
      s1 == decorLoaded(s0, [ver |-> 1, img |-> FOOTER_ID, pg |-> InitialPage])
  IN decorLoaded(s1, [ver |-> 1, img |-> STAMP_ID, pg |-> InitialPage])

Selectable(cv) == {i \in 1..Len(cv) : ~isLockedDecorationId(cv[i].id)}

InitLayer ==
  \E json \in StoredPages :
    /\ \E picked \in SUBSET Selectable(ConstructedOn(json).canvas) :
         canvas = [i \in 1..Len(ConstructedOn(json).canvas) |->
                     [ConstructedOn(json).canvas[i] EXCEPT !.sel = (i \in picked)]]
    /\ history = ConstructedOn(json).history
    /\ historyIndex = ConstructedOn(json).historyIndex
    /\ hasPageChanges = ConstructedOn(json).hasPageChanges
    /\ isRestoring = ConstructedOn(json).isRestoring
    /\ isApplyingDecorations = ConstructedOn(json).isApplyingDecorations
    /\ decorVersion = ConstructedOn(json).decorVersion
    /\ currentPageId = ConstructedOn(json).currentPageId
    /\ isDisposed = ConstructedOn(json).isDisposed
    /\ pendingDecor = ConstructedOn(json).pendingDecor
    /\ clipboard = << >>
    /\ calls = ConstructedOn(json).calls
    /\ textChangeTimer = FALSE
    /\ pendingLoads = << >>
    /\ pendingImages = << >>
    /\ store = ApplyCalls([p \in Pages |-> IF p = InitialPage THEN Json(json) ELSE NoJson],
                          ConstructedOn(json).calls)
    /\ ops = 0
    /\ undoRun = 0
    /\ burst = NoBurst
    /\ scene = [of |-> "layers", log |-> << >>]
    /\ last = "init"

LayerBudget == ops < MaxLayerOps /\ ops' = ops + 1

NextLayer ==
  \/ LayerBudget /\ \E direction \in {"up", "down"} : MoveLayer(direction)
  \/ LayerBudget /\ ToggleLock
  \/ LayerBudget /\ ToggleVisibility
  \/ LayerBudget /\ \E opacityValue \in {1, 50} : SetOpacity(opacityValue)

SpecLayer == InitLayer /\ [][NextLayer]_vars

\* ----------------------------------------------------------------------
\* The crop handles of an image (pageUtils.ts, lines 91-192).  An image is its
\* geometry (left, top, scale = scaleX = scaleY as a whole factor, angle in
\* degrees), its crop rectangle (cropX, cropY, width, height, in source
\* pixels), the natural size of its element and the source size cached in its
\* data bag.  Lengths are whole pixels; a quotient is rounded down.
\* ----------------------------------------------------------------------
clamp(value, min, max) == Min(max, Max(min, value))

ensureImageCropSourceSize(image) ==
  LET orElse(a, b) == IF a # 0 THEN a ELSE b
      sourceWidth == IF image.data.cached THEN image.data.cropSourceWidth
                     ELSE orElse(image.naturalWidth, image.width)
      sourceHeight == IF image.data.cached THEN image.data.cropSourceHeight
                      ELSE orElse(image.naturalHeight, image.height)
  IN [image EXCEPT !.data = [cached |-> TRUE, cropSourceWidth |-> sourceWidth,
                             cropSourceHeight |-> sourceHeight]]

\* The four branches of applyImageCropFromPointer, by the dragged side.
cropSide(image, pointer, side) ==
  LET sourceWidth == image.data.cropSourceWidth
      sourceHeight == image.data.cropSourceHeight
      orElse(a, b) == IF a # 0 THEN a ELSE b
      imageScaleX == Abs(orElse(image.scale, 1))    \* scaleX
      imageScaleY == Abs(orElse(image.scale, 1))    \* scaleY
      cropX == image.cropX
      cropY == image.cropY
      visibleWidth == orElse(image.width, sourceWidth)
      visibleHeight == orElse(image.height, sourceHeight)
      left == image.left
      top == image.top
      right == left + visibleWidth * imageScaleX
      bottom == top + visibleHeight * imageScaleY
      sourceRight == cropX + visibleWidth
      desiredWidth == clamp((right - pointer.x) \div imageScaleX, MIN_IMAGE_CROP_SIZE, sourceRight)
      nextCropX == clamp(sourceRight - desiredWidth, 0, sourceWidth - MIN_IMAGE_CROP_SIZE)
      leftWidth == clamp(sourceRight - nextCropX, MIN_IMAGE_CROP_SIZE, sourceWidth - nextCropX)
      sourceBottom == cropY + visibleHeight
      desiredHeight == clamp((bottom - pointer.y) \div imageScaleY, MIN_IMAGE_CROP_SIZE, sourceBottom)
      nextCropY == clamp(sourceBottom - desiredHeight, 0, sourceHeight - MIN_IMAGE_CROP_SIZE)
      topHeight == clamp(sourceBottom - nextCropY, MIN_IMAGE_CROP_SIZE, sourceHeight - nextCropY)
  IN CASE side = "right" ->
            [image EXCEPT !.width = clamp((pointer.x - left) \div imageScaleX, MIN_IMAGE_CROP_SIZE,
                                          sourceWidth - cropX)]
       [] side = "left" ->
            [image EXCEPT !.cropX = nextCropX, !.width = leftWidth,
                          !.left = right - leftWidth * imageScaleX]
       [] side = "bottom" ->
            [image EXCEPT !.height = clamp((pointer.y - top) \div imageScaleY, MIN_IMAGE_CROP_SIZE,
                                           sourceHeight - cropY)]
       [] OTHER ->
            [image EXCEPT !.cropY = nextCropY, !.height = topHeight,
                          !.top = bottom - topHeight * imageScaleY]

\* applyImageCropFromPointer without the test of the source size.
applyImageCropUnguarded(image, pointer, side) ==
  LET sized == ensureImageCropSourceSize(image)
  IN IF Abs(image.angle) > 0 THEN [image |-> image, returned |-> FALSE]
     ELSE [image |-> cropSide(sized, pointer, side), returned |-> TRUE]

applyImageCropFromPointer(image, pointer, side) ==
  LET sized == ensureImageCropSourceSize(image)
  IN IF Abs(image.angle) > 0 THEN [image |-> image, returned |-> FALSE]
     ELSE IF sized.data.cropSourceWidth = 0 \/ sized.data.cropSourceHeight = 0
       THEN [image |-> sized, returned |-> FALSE]
     ELSE [image |-> cropSide(sized, pointer, side), returned |-> TRUE]

\* handle.addImage's callback on the loaded element: scaleToWidth(300), the
\* place on the page, applyImageControls (which caches the source size).  An
\* element that failed to load has no size.
addedImage(naturalWidth, naturalHeight, angle) ==
  ensureImageCropSourceSize(
    [left |-> 64, top |-> 360, angle |-> angle,
     scale |-> IF naturalWidth = 0 THEN 1 ELSE 300 \div naturalWidth,
     cropX |-> 0, cropY |-> 0, width |-> naturalWidth, height |-> naturalHeight,
     naturalWidth |-> naturalWidth, naturalHeight |-> naturalHeight,
     data |-> [cached |-> FALSE, cropSourceWidth |-> 0, cropSourceHeight |-> 0]])

NaturalSizes == {<<0, 0>>, <<20, 20>>, <<20, 200>>, <<150, 200>>, <<300, 20>>, <<300, 100>>}
Pointers == {-100, 0, 64, 100, 214, 364, 380, 500, 660, 2000}

InitCrop ==
  /\ Idle
  /\ \E size \in NaturalSizes, angle \in {0, 30} :
       scene = [of |-> "crop", image |-> addedImage(size[1], size[2], angle),
                before |-> addedImage(size[1], size[2], angle), returned |-> FALSE]

\* The user drags one of the four crop handles to a point of the page.
CropDrag ==
  /\ ops < MaxCrops
  /\ ops' = ops + 1
  /\ \E side \in {"left", "right", "top", "bottom"}, x \in Pointers, y \in Pointers :
       LET done == applyImageCropFromPointer(scene.image, [x |-> x, y |-> y], side)
       IN scene' = [of |-> "crop", image |-> done.image, before |-> scene.image,
                    returned |-> done.returned]
  /\ last' = "cropDrag"
  /\ UNCHANGED ctl

\* The user turns the image with the rotation control.
CropRotate ==
  /\ ops < MaxCrops
  /\ ops' = ops + 1
  /\ \E angle \in {0, 30} :
       /\ angle # scene.image.angle
       /\ scene' = [scene EXCEPT !.image.angle = angle, !.before = scene.image,
                                 !.returned = FALSE]
  /\ last' = "rotate"
  /\ UNCHANGED ctl

NextCrop == CropDrag \/ CropRotate

SpecCrop == InitCrop /\ [][NextCrop]_vars

\* ------------------------------------------------------ linear history
\* The controller on its first page under commits, undo and redo, for runs
\* long enough to commit after two undo() calls in a row.
LinearBudget == ops < MaxLinearOps /\ ops' = ops + 1 /\ PassRoom

NextLinear ==
  \/ LinearBudget /\ AddText
  \/ LinearBudget /\ AddImage
  \/ LinearBudget /\ Undo
  \/ LinearBudget /\ Redo
  \/ Free /\ \E i \in 1..Len(pendingLoads) : ReloadDone(i)
  \/ Free /\ \E load \in pendingDecor : DecorLoadDone(load)
  \/ Free /\ \E i \in 1..Len(pendingImages), ok \in BOOLEAN : ImageLoadDone(i, ok)

SpecLinear == Init /\ [][NextLinear]_vars

\* ------------------------------------------------------------------ C1
\* C1: the history list never holds more than 50 entries, the index always
\* points into it, and once undo() has been called 50 or more times in a row
\* the index is 0, the oldest retained snapshot.
C1_HistoryBound ==
  /\ Len(history) <= HistoryCap
  /\ historyIndex \in 0..(Len(history) - 1)
  /\ undoRun >= HistoryCap => historyIndex = 0

\* More than 50 commits were made (the seed has been dropped from a full
\* history) and 50 undo() calls in a row have just ended on index 0.
C1_Witness ==
  /\ Len(history) = HistoryCap
  /\ history[1] # Constructed.history[1]
  /\ undoRun >= HistoryCap
  /\ last = "undo"
  /\ historyIndex = 0

\* ------------------------------------------------------------------ C2
\* Every committed snapshot of the current state: the history entries and the
\* JSONs handed to onPageChange by the last step.
CommittedSnapshots ==
  {history[i] : i \in 1..Len(history)} \cup {calls[i].json : i \in 1..Len(calls)}

\* C2, as stated: no committed snapshot holds an object whose id is one of the
\* six decoration ids (fixed-header, fixed-footer, fixed-stamp, fixed-date,
\* fixed-page-number, designer-contact-info).
C2_NoDecorationPersisted ==
  \A json \in CommittedSnapshots :
    \A i \in 1..Len(json) : ~isDecorationId(json[i].id)

\* C2, amended: no committed snapshot holds an object whose id is one of the
\* five locked decoration ids (fixed-header, fixed-footer, fixed-stamp,
\* fixed-date, fixed-page-number); designer-contact-info is not one of them.
C2_NoLockedDecorationPersisted ==
  /\ \A json \in CommittedSnapshots :
       \A i \in 1..Len(json) : ~isLockedDecorationId(json[i].id)
  /\ ~isLockedDecorationId(CONTACT_INFO_ID)

\* addText() has just committed a snapshot while the header, the date, the
\* page number and the loaded footer and stamp images were on the graph.
C2_Witness ==
  /\ last = "addText"
  /\ calls # << >>
  /\ \A id \in LOCKED_DECORATION_IDS : HasId(canvas, id)
  /\ history[historyIndex + 1] = calls[Len(calls)].json

\* ------------------------------------------------------------------ C3
\* C3: the decoration counter never decreases, every re-application raises
\* it, and a footer or stamp image load that completes for a pass made stale
\* by a newer pass, by a newer page load (the page shown is no longer the page
\* the pass was started for) or by dispose leaves the graph as it is.
C3_StalePassNeverMutates ==
  [][/\ decorVersion' >= decorVersion
     /\ last' = "setHeaderFooter" /\ ~isDisposed => decorVersion' = decorVersion + 1
     /\ \A load \in pendingDecor \ pendingDecor' :
          (/\ last' = "decorLoaded"
           /\ \/ load.ver # decorVersion
              \/ load.pg # currentPageId
              \/ isDisposed)
          => canvas' = canvas]_vars

\* ------------------------------------------------------------------ C4
\* C4: Disposed is terminal.  No step taken after dispose() (a handle
\* operation, the debounce timer, the completion of an image load, of a JSON
\* reload or of a decoration pass) changes the graph, the history or the
\* history index, or fires onPageChange.
C4_DisposedIsTerminal ==
  [][isDisposed => /\ canvas' = canvas
                   /\ history' = history
                   /\ historyIndex' = historyIndex
                   /\ calls' = << >>]_vars

\* ------------------------------------------------------------------ C5
\* The state right after the first addText() on a freshly seeded page: the
\* history is the seed followed by the snapshot with the text.
AfterFirstAddText ==
  /\ last = "addText"
  /\ ~isDisposed
  /\ Len(history) = 2
  /\ historyIndex = 1

\* Two snapshots hold the same objects in the same stacking order, the
\* position of the contact block in the stack left aside.
SameContent(a, b) ==
  /\ SelectSeq(a, LAMBDA o : o.id # CONTACT_INFO_ID) = SelectSeq(b, LAMBDA o : o.id # CONTACT_INFO_ID)
  /\ SelectSeq(a, LAMBDA o : o.id = CONTACT_INFO_ID) = SelectSeq(b, LAMBDA o : o.id = CONTACT_INFO_ID)

\* C5, as stated: undo() immediately after the first addText() on a freshly
\* loaded page is a no-op (graph, history and index unchanged), and the index
\* never goes below the seed.
C5_UndoAfterFirstAddTextIsNoOp ==
  /\ [][AfterFirstAddText /\ last' = "undo"
          => canvas' = canvas /\ history' = history /\ historyIndex' = historyIndex]_vars
  /\ [](historyIndex >= 0)

\* C5, amended: undo() immediately after the first addText() on a freshly
\* loaded page undoes it: the index moves from 1 to the seed at 0, the history
\* list is kept, hasPageChanges is cleared, onPageChange is called once with
\* the seed, and (the seed holding no image, so the reload completes within
\* the call) the graph's persisted content is the seed's again.  The index
\* never goes below the seed.
C5_UndoAfterFirstAddTextRestoresSeed ==
  /\ [][AfterFirstAddText /\ last' = "undo"
          => /\ historyIndex' = 0
             /\ history' = history
             /\ ~hasPageChanges'
             /\ calls' = <<[pageId |-> currentPageId, json |-> history[1]]>>
             /\ ~HasImages(history[1])
                  => SameContent(buildPersistedJson(canvas'), history[1])]_vars
  /\ [](historyIndex >= 0)

\* undo() has just followed the first addText(): the index is back on the
\* seed, the entry with the text is still in the list, the text is off the
\* graph.
C5_Witness ==
  /\ last = "undo"
  /\ ops = 2
  /\ historyIndex = 0
  /\ Len(history) = 2
  /\ \E i \in 1..Len(history[2]) : history[2][i].kind = "i-text"
  /\ \A i \in 1..Len(canvas) : canvas[i].kind # "i-text"
  /\ calls = <<[pageId |-> currentPageId, json |-> history[1]]>>

\* ------------------------------------------------------------------ C6
\* C6: undo() at history index 0, or with no change beyond the seed, and
\* redo() at the newest entry are no-ops: the graph, the history and the index
\* stay as they are and no onPageChange fires.  The index always lies within
\* [0, Len(history) - 1].
C6_BoundaryNoOps ==
  /\ [][/\ last' = "undo" /\ (historyIndex = 0 \/ ~hasPageChanges)
             => /\ canvas' = canvas
                /\ history' = history
                /\ historyIndex' = historyIndex
                /\ calls' = << >>
        /\ last' = "redo" /\ historyIndex = Len(history) - 1
             => /\ canvas' = canvas
                /\ history' = history
                /\ historyIndex' = historyIndex
                /\ calls' = << >>]_vars
  /\ [](historyIndex \in 0..(Len(history) - 1))

\* A second undo() in a row has just been called on the seed of a history
\* that holds a later entry, and nothing was reported.
C6_Witness ==
  /\ last = "undo"
  /\ undoRun >= 2
  /\ ~isDisposed
  /\ historyIndex = 0
  /\ Len(history) >= 2
  /\ calls = << >>

\* ------------------------------------------------------------------ C7
\* The steps that do nothing to the history but commit: a handle operation
\* or the debounce timer ending in pushHistory.
CommitSteps == {"addText", "setTextStyle", "deleteActive", "imageAdded", "timer"}

\* C7: a commit whose persisted content equals the snapshot at the current
\* index pushes no entry (history and index unchanged, no onPageChange), and
\* no two adjacent history entries are identical.
C7_Coalescing ==
  /\ [][/\ last' \in CommitSteps
        /\ buildPersistedJson(canvas') = history[historyIndex + 1]
        => /\ history' = history
           /\ historyIndex' = historyIndex
           /\ calls' = << >>]_vars
  /\ [](\A i \in 1..(Len(history) - 1) : history[i] # history[i + 1])

\* The debounce timer has just fired on a live graph whose persisted content
\* equals the current snapshot, and nothing was pushed or reported.
C7_Witness ==
  /\ last = "timer"
  /\ ~isRestoring /\ ~isDisposed
  /\ Len(history) >= 2
  /\ buildPersistedJson(canvas) = history[historyIndex + 1]
  /\ calls = << >>

\* ------------------------------------------------------------------ C8
\* C8: a non-boundary undo() (redo()) moves the index by exactly one, and once
\* the reloads started by the undo() and redo() calls so far have completed,
\* the graph's persisted content equals the snapshot at the current index.
C8_GraphFollowsHistory ==
  /\ [][/\ last' = "undo" /\ historyIndex > 0 /\ hasPageChanges
             => historyIndex' = historyIndex - 1
        /\ last' = "redo" /\ historyIndex < Len(history) - 1
             => historyIndex' = historyIndex + 1]_vars
  /\ [](last \in {"undo", "redo", "historyReloaded"} /\ pendingLoads = << >>
          => SameContent(buildPersistedJson(canvas), history[historyIndex + 1]))

\* ------------------------------------------------------------------ C9
\* C9: every history entry appended by a commit comes, in the same step, with
\* exactly one onPageChange(pageId, json) call whose pageId is the page loaded
\* in the controller and whose json is the appended snapshot.  A committing
\* step that changes the history makes that one call and no other; in any
\* step that ends on a pushed entry (hasPageChanges set) the last call
\* reports the newest entry.
C9_CommitReportsSnapshot ==
  [][/\ last' \in CommitSteps /\ history' # history
          => /\ calls' = <<[pageId |-> currentPageId, json |-> history'[Len(history')]]>>
             /\ history'[Len(history')] = buildPersistedJson(canvas')
             /\ historyIndex' = Len(history') - 1
     /\ history' # history /\ hasPageChanges'
          => /\ calls' # << >>
             /\ calls'[Len(calls')] =
                  [pageId |-> currentPageId', json |-> history'[Len(history')]]]_vars

\* setTextStyle() has just pushed a third or later entry and reported it for
\* the current page.
C9_Witness ==
  /\ last = "setTextStyle"
  /\ Len(history) >= 3
  /\ historyIndex = Len(history) - 1
  /\ calls = <<[pageId |-> currentPageId, json |-> history[Len(history)]]>>
  /\ store[currentPageId] = Json(history[Len(history)])

\* ------------------------------------------------------------------ C10
\* A page switch is loading: the callback of loadPage's JSON reload or the
\* end of its default-image pass is still to come.
SwitchPending ==
  \/ \E i \in 1..Len(pendingLoads) : pendingLoads[i].kind = "page"
  \/ \E i \in 1..Len(pendingImages) : pendingImages[i].kind = "default"

\* A page switch has just completed on a live controller: the last step was
\* a loadPage that finished within the call, the callback of its JSON reload,
\* or the end of its default-image pass, and no page switch is loading.
PageSwitchCompleted ==
  /\ last \in {"loadPage", "pageReloaded", "defaultImageLoaded"}
  /\ ~isDisposed
  /\ ~SwitchPending

C11_DebouncedCommit ==
  [][/\ last' = "textEdit"
          => history' = history /\ historyIndex' = historyIndex /\ calls' = << >>
     /\ last' = "timer" /\ ~isDisposed /\ burst # NoBurst
          => /\ currentPageId' = burst.pg
             /\ \E i \in 1..Len(history'[historyIndex' + 1]) :
                  /\ history'[historyIndex' + 1][i].kind = "i-text"
                  /\ history'[historyIndex' + 1][i].txt = burst.txt]_vars

\* ------------------------------------------------------------------ C12
\* The BOM table on the graph or a copy of it: the group of the table's parts.
IsBomTable(o) == o.parts > 0
BomObjects(cv) == SelectSeq(Deselect(cv), LAMBDA o : isBomObject(o))

\* C12: BOM objects are immutable.  Deleting, copying, cutting, resizing or
\* rotating a selection that consists of a BOM object leaves the persisted
\* graph, the history and the clipboard as they are and reports nothing; with
\* a BOM object as one member of a multi-selection, delete and cut leave it
\* on the graph, copy and cut put no clone of it on the clipboard, and no
\* paste adds a copy of the BOM table to the graph.
C12_BomImmutable ==
  [][/\ (/\ last' \in {"deleteActive", "copy", "cut", "resize", "rotate"}
         /\ Selected(canvas) # {}
         /\ \A i \in Selected(canvas) : isBomObject(canvas[i]))
        => /\ buildPersistedJson(canvas') = buildPersistedJson(canvas)
           /\ history' = history
           /\ historyIndex' = historyIndex
           /\ clipboard' = clipboard
           /\ calls' = << >>
     /\ last' \in {"deleteActive", "cut"} => BomObjects(canvas') = BomObjects(canvas)
     /\ last' \in {"copy", "cut"}
        => \A k \in 1..Len(clipboard') : ~IsBomTable(clipboard'[k])
     /\ last' = "paste"
        => Len(SelectSeq(canvas', IsBomTable)) = Len(SelectSeq(canvas, IsBomTable))]_vars

\* ------------------------------------------------------------------ C13
\* C13: the consolidation step is idempotent.  A second run right after a
\* first one on the same graph changes nothing: the graph with its object
\* count and its groups, the history and the index stay as they are and
\* nothing is reported; after a run at most one bom-table-group exists and no
\* loose bom- part is left on the graph.
C13_GroupingIdempotent ==
  /\ [][last = "ensureBomTableGroup" /\ last' = "ensureBomTableGroup"
          => /\ canvas' = canvas
             /\ Len(canvas') = Len(canvas)
             /\ history' = history
             /\ historyIndex' = historyIndex
             /\ calls' = << >>]_vars
  /\ [](last = "ensureBomTableGroup"
          => /\ Cardinality({i \in 1..Len(canvas) : canvas[i].id = BOM_TABLE_GROUP_ID}) <= 1
             /\ \A i \in 1..Len(canvas) : ~isBomTablePart(canvas[i]))

\* The step has run twice on a graph loaded with two loose parts and a text:
\* the graph holds the text and the one group of the two parts.
C13_Witness ==
  /\ last = "ensureBomTableGroup"
  /\ ops = 2
  /\ Len(canvas) = 2
  /\ canvas[1] = TextObj(InitialPage)
  /\ canvas[2] = BomGroup(InitialPage, 2)

\* ------------------------------------------------------------------ C14
\* The deltas between the edges (left, right, centre; top, bottom, centre) of
\* a box and the corresponding edges of the siblings, the decorations left
\* aside.
SiblingDeltasX(b) == xDeltas(b, SelectSeq(scene.others, LAMBDA o : ~o.deco))
SiblingDeltasY(b) == yDeltas(b, SelectSeq(scene.others, LAMBDA o : ~o.deco))
Within(ds, n) == \E k \in 1..Len(ds) : Abs(ds[k]) <= n

\* C14: when an edge of the dragged object is within 6 px of the
\* corresponding edge of a sibling on an axis, then after the move handler an
\* edge of the object coincides exactly with the corresponding edge of a
\* sibling on that axis.
C14_SnapConvergence ==
  last = "moving"
    => /\ Within(SiblingDeltasX(scene.target), HalfPx(GUIDE_SNAP_THRESHOLD))
            => Within(SiblingDeltasX(scene.result), 0)
       /\ Within(SiblingDeltasY(scene.target), HalfPx(GUIDE_SNAP_THRESHOLD))
            => Within(SiblingDeltasY(scene.result), 0)

\* ------------------------------------------------------------------ C15
PageCenterX == HalfPx(A4_PX.width) \div 2

\* C15, as stated: when the centre of the dragged text box is within 5 px of
\* the page's horizontal centre (397 px), its centre x is exactly 397 px after
\* the move handler.
C15_CenterSnap ==
  last = "moving" /\ Abs(CenterX(scene.target) - PageCenterX) <= HalfPx(5)
    => CenterX(scene.result) = HalfPx(397)

\* C15, amended: when the centre of the dragged text box is within 5 px of
\* the page's horizontal centre (397 px), no edge of the box is within 6 px of
\* the corresponding edge of a sibling on the x axis, and the box is no wider
\* than the page, its centre x is exactly 397 px after the move handler.
C15_CenterSnapWithoutSibling ==
  (/\ last = "moving"
   /\ Abs(CenterX(scene.target) - PageCenterX) <= HalfPx(5)
   /\ ~Within(SiblingDeltasX(scene.target), HalfPx(GUIDE_SNAP_THRESHOLD))
   /\ scene.target.width <= HalfPx(A4_PX.width))
    => CenterX(scene.result) = HalfPx(397)

\* A text box dragged to 5 px left of the page centre, beside a sibling none
\* of whose edges is near, has been moved to the centre by the handler.
C15_Witness ==
  /\ last = "moving"
  /\ scene.others = <<SiblingA>>
  /\ CenterX(scene.target) = HalfPx(392)
  /\ CenterX(scene.result) = HalfPx(397)
  /\ scene.result.top = scene.target.top

\* ------------------------------------------------------------------ C16
RECURSIVE Flatten(_)
Flatten(chunks) ==
  IF chunks = << >> THEN << >> ELSE Head(chunks) \o Flatten(Tail(chunks))

ChunksCoverRows(chunks, rows) ==
  /\ Len(chunks) >= 1
  /\ (Len(rows) = 0 => chunks = << << >> >>)
  /\ Flatten(chunks) = rows

RECURSIVE HeightOf(_, _, _)
HeightOf(rows, from, to) ==
  IF from > to THEN 0
  ELSE IF from = to THEN getBomRowHeight(rows[from])
  ELSE LET mid == (from + to) \div 2 IN
       HeightOf(rows, from, mid) + HeightOf(rows, mid + 1, to)

RowsHeight(rows) == HeightOf(rows, 1, Len(rows))

PageSized(chunk) ==
  BOM_TABLE_TOP + BOM_HEADER_HEIGHT + RowsHeight(chunk)
    <= BOM_PAGE_HEIGHT - BOM_TABLE_BOTTOM

\* C16: for every row list, chunkRows returns at least one chunk (exactly one
\* empty chunk for zero rows), the chunks concatenated in order equal the
\* input, and every chunk is page-sized: the table start (156 px) plus the sum
\* of its row heights does not exceed the printable end (1003 px).
C16_ChunksPageSized ==
  last = "chunkBomRows"
    => /\ ChunksCoverRows(scene.chunks, scene.data.rows)
       /\ \A k \in 1..Len(scene.chunks) : PageSized(scene.chunks[k])

\* ------------------------------------------------------------------ C17
\* The totals row of a page: the "Total:" label that only it carries.
HasTotals(page) ==
  \E k \in 1..Len(page.fabricJSON.objects) :
    /\ page.fabricJSON.objects[k].type = "text"
    /\ page.fabricJSON.objects[k].text = <<"Total:">>

\* The cell texts of the rows of a page, five per row in row order: every
\* bom-cell-text node but the total-value cell of the totals row.
RowCells(page) ==
  LET cells == SelectSeq(page.fabricJSON.objects, LAMBDA o : o.id = "bom-cell-text") IN
  IF HasTotals(page) THEN SubSeq(cells, 1, Len(cells) - 1) ELSE cells

\* The rows read back from a page.
RowsOfPage(page) ==
  LET cells == RowCells(page) IN
  [j \in 1..(Len(cells) \div 5) |->
     [part |-> cells[5 * j - 4].text, description |-> cells[5 * j - 3].text,
      unitPrice |-> cells[5 * j - 2].text, qty |-> cells[5 * j - 1].text,
      total |-> cells[5 * j].text, isBold |-> cells[5 * j - 4].bold]]

\* The same row, as far as the layout shows it.
SameRow(shown, row) ==
  /\ shown.part = row.part
  /\ splitWords(shown.description) = splitWords(row.description)
  /\ shown.total = cellString(row.total)

ShowsChunk(page, chunk) ==
  LET shown == RowsOfPage(page) IN
  /\ Len(RowCells(page)) = 5 * Len(chunk)
  /\ \A j \in 1..Len(chunk) : SameRow(shown[j], chunk[j])

PagePerChunk(pages, chunks) ==
  /\ Len(pages) = Len(chunks)
  /\ \A k \in 1..Len(pages) : ShowsChunk(pages[k], chunks[k])
  /\ \A k \in 1..Len(pages) : HasTotals(pages[k]) <=> k = Len(pages)

PrintableHeight == BOM_PAGE_HEIGHT - BOM_TABLE_BOTTOM - BOM_TABLE_TOP - BOM_HEADER_HEIGHT

\* C17: createPages(tableData) returns exactly one page per chunk of
\* chunkRows(tableData.rows), in chunk order, the totals row is on the last
\* page and on no other page, and a table whose row heights sum to more than
\* one page's printable height yields at least 2 pages.
C17_PagePerChunk ==
  last = "createBomPages"
    => /\ PagePerChunk(scene.pages, chunkBomRows(scene.data.rows))
       /\ RowsHeight(scene.data.rows) > PrintableHeight => Len(scene.pages) >= 2

\* ------------------------------------------------------------------ C18
\* The rows read back from the pages, in page order.
RECURSIVE RowsOfPages(_)
RowsOfPages(pages) ==
  IF pages = << >> THEN << >>
  ELSE RowsOfPage(Head(pages)) \o RowsOfPages(Tail(pages))

SameChunking(shown, chunks) ==
  /\ Len(shown) = Len(chunks)
  /\ \A k \in 1..Len(chunks) :
       /\ Len(shown[k]) = Len(chunks[k])
       /\ \A j \in 1..Len(chunks[k]) : SameRow(shown[k][j], chunks[k][j])

\* C18: the rows reconstructed from the fabricJSON of every page produced by
\* createPages(tableData), in page order, are chunked by chunkRows as
\* tableData.rows is: the same number of chunks, the same rows in each chunk.
C18_RoundTrip ==
  last = "createBomPages"
    => SameChunking(chunkBomRows(RowsOfPages(scene.pages)),
                    chunkBomRows(scene.data.rows))

\* A table of three rows of 30 lines each has been laid out on two pages; the
\* description read back from a page is the wrapped text, not the text that
\* was handed in, and the rows read back fall into the same two chunks.
C18_Witness ==
  /\ last = "createBomPages"
  /\ scene.data.rows = <<TallRow, TallRow, TallRow>>
  /\ Len(scene.pages) = 2
  /\ RowsOfPages(scene.pages)[3].description # TallRow.description
  /\ Len(chunkBomRows(RowsOfPages(scene.pages))) = 2
  /\ Len(chunkBomRows(RowsOfPages(scene.pages))[1]) = 2

\* ------------------------------------------------------------------ C19
\* The exported editor page, its PDF page, and the texts drawn for node i.
ExportedObjects == scene.pages[1]
PdfPage == scene.doc[2]
TextsOf(i) == SelectSeq(PdfPage.texts, LAMBDA t : t.node = i)

Exportable(o) == isFabricTextObject(o) /\ ~o.inGroup /\ trim(o.text) # ""
RotatedBy30(o) == Exportable(o) /\ o.angle = 3000
Unrotated(o) == Exportable(o) /\ o.angle = 0
RotatedBesideUnrotated ==
  /\ \E i \in 1..Len(ExportedObjects) : RotatedBy30(ExportedObjects[i])
  /\ \E j \in 1..Len(ExportedObjects) : Unrotated(ExportedObjects[j])

\* Node i is hidden from the page image and drawn once, as filled text, at
\* its anchor multiplied by 595/794 and 842/1123.
DrawnAsVector(i) ==
  LET o == ExportedObjects[i]
      anchor == getPointByOrigin(o, o.textAlign)
  IN  /\ i \notin PdfPage.image
      /\ Len(TextsOf(i)) = 1
      /\ TextsOf(i)[1].renderingMode = "fill"
      /\ TextsOf(i)[1].angle = 0
      /\ TextsOf(i)[1].x = [num |-> anchor.x * 595, den |-> 794]
      /\ TextsOf(i)[1].y = [num |-> anchor.y * 842, den |-> 1123]

GraphOf(p) == IF currentPageId = p THEN canvas ELSE store[p].objects
CaptureImages(p) ==
  Cardinality({i \in 1..Len(GraphOf(p)) :
                 GraphOf(p)[i].kind = "image" /\ GraphOf(p)[i].id = ""})

\* Nothing is waiting or in flight.
Settled ==
  /\ Rendered
  /\ scene.buffer = << >>
  /\ pendingLoads = << >>
  /\ pendingImages = << >>
  /\ pendingDecor = {}

\* C20: every pending capture is inserted into a page graph exactly once
\* (never twice, never dropped), and always into the graph of the first page,
\* whatever page was active when it arrived and also when it forces a switch
\* to a first page whose load has not completed: no capture image is on
\* another page, the first page holds no more capture images than captures
\* were processed, and once nothing is in flight it holds one per capture.
C20_CaptureOnFirstPage ==
  /\ \A p \in Pages \ {FirstPage} : CaptureImages(p) = 0
  /\ CaptureImages(FirstPage) <= Cardinality(scene.processed)
  /\ Settled => CaptureImages(FirstPage) = scene.taken

\* ------------------------------------------------------------------ C21
\* C21: whatever store operations are called (addPage, deleteActivePage,
\* movePage, swapAdjacentPages, setActivePageId, setPageFabricJSON,
\* loadSnapshot), the page list holds at least one page, and deleteActivePage
\* on a document of one page leaves the pages and the active page's id as
\* they were and writes no session snapshot.
C21_AtLeastOnePage ==
  scene.of = "Store" =>
    /\ Len(scene.pages) >= 1
    /\ (last = "deleteActivePage" /\ Len(scene.prev.pages) = 1) =>
         /\ scene.pages = scene.prev.pages
         /\ scene.activePageId = scene.prev.activePageId
         /\ ~scene.persisted

\* deleteActivePage was called on a document of one page.
C21_Witness ==
  /\ scene.of = "Store"
  /\ last = "deleteActivePage"
  /\ Len(scene.prev.pages) = 1
  /\ Len(scene.pages) = 1

\* ------------------------------------------------------------------ C22
\* C22: after every step that commits or reports a snapshot (a committed
\* change, an undo, a redo, a paste, a layer operation) and after the
\* completion of the latest decoration pass, every decoration object stands
\* above every other object in the draw order.
DecorationsOnTop(cv) ==
  \A i \in 1..Len(cv), j \in 1..Len(cv) :
    (i < j /\ isDecorationId(cv[i].id)) => isDecorationId(cv[j].id)

C22_DecorationsOnTop ==
  (calls # << >> \/ (last = "decorLoaded" /\ ~isApplyingDecorations)) =>
    DecorationsOnTop(canvas)

\* ------------------------------------------------------------------ C23
\* C23: toggleLock() and toggleVisibility() on a selection that holds
\* objects other than decorations leave all of these in one locked (dimmed)
\* state: unlocked (undimmed) if more than half of them were locked (dimmed)
\* before the call, locked (dimmed) otherwise; and the call appends an entry
\* to the history.
SelectedContent(cv) == {i \in Selected(cv) : ~isDecorationId(cv[i].id)}

MostLocked(cv) ==
  2 * Cardinality({i \in SelectedContent(cv) : isUserLockedObject(cv[i])}) >
    Cardinality(SelectedContent(cv))

MostDimmed(cv) ==
  2 * Cardinality({i \in SelectedContent(cv) : isDimmedObject(cv[i])}) >
    Cardinality(SelectedContent(cv))

EntryCommitted ==
  /\ Len(history') = Len(history) + 1
  /\ historyIndex' = Len(history') - 1
  /\ history'[historyIndex' + 1] = buildPersistedJson(canvas')

C23_ToggleByMajority ==
  [][/\ (last' = "toggleLock" /\ SelectedContent(canvas) # {}) =>
          /\ \A i \in SelectedContent(canvas) :
               isUserLockedObject(canvas'[i]) = ~MostLocked(canvas)
          /\ EntryCommitted
     /\ (last' = "toggleVisibility" /\ SelectedContent(canvas) # {}) =>
          /\ \A i \in SelectedContent(canvas) :
               isDimmedObject(canvas'[i]) = ~MostDimmed(canvas)
          /\ EntryCommitted]_vars

\* ------------------------------------------------------------------ C29
\* C29: two toggleVisibility() calls in a row on one selection bring every
\* object back to the opacity, the dimmed flag and the user-locked state it
\* had before the first call.  Here the two calls are the first calls on the
\* page, so the state before them is the seed of the history.
ToggledTwice == scene.of = "layers" /\ scene.log = <<"toggleVisibility", "toggleVisibility">>

C29_VisibilityInvolution ==
  ToggledTwice => buildPersistedJson(canvas) = history[1]

\* ------------------------------------------------------------------ C24
\* C24: a crop-handle drag on an image whose source width or height is zero
\* is refused: the handler returns false and the image's geometry, crop
\* rectangle and data are what they were before the drag.
NoSourceSize(image) == image.data.cropSourceWidth = 0 \/ image.data.cropSourceHeight = 0

CropInBounds(image) ==
  /\ image.width >= MIN_IMAGE_CROP_SIZE
  /\ image.height >= MIN_IMAGE_CROP_SIZE
  /\ image.cropX >= 0
  /\ image.cropY >= 0
  /\ image.cropX + image.width <= image.data.cropSourceWidth
  /\ image.cropY + image.height <= image.data.cropSourceHeight

C25_CropInBounds ==
  (scene.of = "crop" /\ last = "cropDrag" /\ scene.returned) => CropInBounds(scene.image)


\* ------------------------------------------------------------------ C26
\* The objects of a reported JSON that were created for another page than the
\* one the call names (decorations belong to no page).
ForeignObjects(call) ==
  {k \in 1..Len(call.json) : call.json[k].pg \notin {"", call.pageId}}

\* C26: page identity is preserved across asynchronous completions.  Under any
\* interleaving of loadPage, undo, redo and the completions of JSON reloads
\* and image loads, every onPageChange(pageId, json) call carries content
\* serialized from pageId's own graph: no object that was loaded or restored
\* for page A is reported under page B's id.
C26_PageChangeOwnGraph ==
  \A i \in 1..Len(calls) : ForeignObjects(calls[i]) = {}

\* ------------------------------------------------------------------ C27
\* The snapshots undo() and redo() can reach.
Restorable == {history[k] : k \in 1..Len(history)}

\* The JSON reloads started by undo() or redo() that complete in this step.
HistoryReloadsDone ==
  {pendingLoads[i].json : i \in {k \in 1..Len(pendingLoads) :
      /\ pendingLoads[k].kind = "history"
      /\ pendingLoads' = RemoveAt(pendingLoads, k)}}

\* C27: the history is linear.  A commit keeps the entries up to the current
\* index, drops every entry above it and appends, so that the new entry is the
\* newest one and redo() has nothing to step to; redo() on the newest entry
\* changes nothing; and a snapshot that a commit has dropped is never put back
\* on the canvas: whatever a completing undo/redo reload restores is an entry
\* of the history.
C27_HistoryIsLinear ==
  [][/\ history' # history
        => /\ historyIndex' = Len(history') - 1
           /\ redoBlocked(Ctl')
           /\ Len(history') > historyIndex + 1
           /\ SubSeq(history', 1, historyIndex + 1) = SubSeq(history, 1, historyIndex + 1)
     /\ (last' = "redo" /\ redoBlocked(Ctl))
        => /\ canvas' = canvas
           /\ history' = history
           /\ historyIndex' = historyIndex
           /\ calls' = << >>
     /\ last' = "historyReloaded" /\ ~isDisposed
        => HistoryReloadsDone \subseteq Restorable]_vars

\* ------------------------------------------------------------------ C28
\* The most recent decoration pass still has an image load in flight.
LatestPassInFlight == \E load \in pendingDecor : load.ver = decorVersion

\* The controller under the operations that start decoration passes, where an
\* image load of a pass that is in flight completes at some time: the browser
\* resolves or fails every load.
DecorBudget == ops < MaxDecorOps /\ ops' = ops + 1 /\ PassRoom

NextDecor ==
  \/ DecorBudget /\ AddText
  \/ DecorBudget /\ \E p \in Pages : LoadPage(p)
  \/ DecorBudget /\ SetHeaderFooter
  \/ DecorBudget /\ Dispose
  \/ Free /\ \E i \in 1..Len(pendingLoads) : ReloadDone(i)
  \/ Free /\ \E load \in pendingDecor : DecorLoadDone(load)
  \/ Free /\ \E i \in 1..Len(pendingImages), ok \in BOOLEAN : ImageLoadDone(i, ok)

SpecDecor ==
  /\ Init
  /\ [][NextDecor]_vars
  /\ WF_vars(Free /\ \E load \in pendingDecor : DecorLoadDone(load))

\* C28: isApplyingDecorations is true exactly while the most recent decoration
\* pass is in flight, whatever older passes do and in whatever order the loads
\* complete, and a pass that is in flight ends: the flag always returns to
\* false, so no change is kept out of the history forever.
C28_FlagFollowsLatestPass ==
  /\ [](isApplyingDecorations <=> LatestPassInFlight)
  /\ (isApplyingDecorations ~> ~isApplyingDecorations)

\* The loads of the most recent pass have completed, the flag is down, and a
\* load of an older pass is still in flight.
C28_Witness ==
  /\ last = "decorLoaded"
  /\ ~isApplyingDecorations
  /\ decorVersion > 1
  /\ pendingDecor # {}

\* ------------------------------------------------------------------ C30
\* The boxes of a page that end below the printable end.
BelowPageEnd(page) ==
  {k \in 1..Len(page.fabricJSON.objects) :
     page.fabricJSON.objects[k].top + page.fabricJSON.objects[k].height
       > BOM_PAGE_HEIGHT - BOM_TABLE_BOTTOM}

\* C30: on every page produced by createBomPages the whole laid-out table, the
\* 16 px totals row on the last page included, ends at or above the printable
\* end (1003 px = page height 1123 minus bottom margin 120), for every row
\* list.
C30_TableWithinPage ==
  last = "createBomPages"
    => \A k \in 1..Len(scene.pages) :
         BelowPageEnd(scene.pages[k]) = {}
====
